---- MODULE Spec2Model ----
(***************************************************************************)
(* The flow execution engine of ProggePal/flow: one task per step, gated   *)
(* on the results its {{tags}} name, the template engine, the guard        *)
(* evaluator, the per-type executors and the bubbletea event loop that     *)
(* receives the tasks' progress messages and supplies human input.         *)
(*                                                                         *)
(* Texts are sequences of characters (one-character strings).  A longer    *)
(* string stands for a run of characters none of which is a brace, an      *)
(* operator character, a quote or leading/trailing white space, so the     *)
(* string functions below treat it the way Go treats that run.             *)
(***************************************************************************)
EXTENDS Integers, Sequences, FiniteSets, Bags, TLC

\* ------------------------------------------------------------------ bounds
\* function calls the generation provider may request during one run
MaxToolCalls == 1
\* the same during the run of the one-step chat
MaxChatCalls == 2
\* key presses of the human that reach the input channel during one run
MaxKeys == 2
\* length of the operands the guard specification enumerates
MaxOperandLen == 2
\* pieces (tags, stray braces, words) the texts of the substitution
\* specification are made of
MaxPieces == 2

\* ----------------------------------------------------------- Go's strings
Space == {" ", "\t", "\n", "\r"}
Quotes == {"'", "\""}
Open == <<"{", "{">>
Close == <<"}", "}">>
NE == <<"!", "=">>
EQ == <<"=", "=">>

HasAt(s, i, pat) ==
    /\ i >= 1
    /\ i + Len(pat) - 1 <= Len(s)
    /\ SubSeq(s, i, i + Len(pat) - 1) = pat

RECURSIVE Index(_, _, _)
\* the least position >= i at which pat occurs in s, 0 when there is none
Index(s, pat, i) ==
    IF i + Len(pat) - 1 > Len(s) THEN 0
    ELSE IF HasAt(s, i, pat) THEN i
    ELSE Index(s, pat, i + 1)

Contains(s, pat) == Index(s, pat, 1) # 0

RECURSIVE ReplaceFrom(_, _, _, _)
ReplaceFrom(s, old, new, i) ==
    LET j == Index(s, old, i) IN
    IF j = 0 THEN SubSeq(s, i, Len(s))
    ELSE SubSeq(s, i, j - 1) \o new \o ReplaceFrom(s, old, new, j + Len(old))

\* strings.ReplaceAll for a non-empty old: leftmost, non-overlapping, one pass
ReplaceAll(s, old, new) == ReplaceFrom(s, old, new, 1)

RECURSIVE SplitFrom(_, _, _)
SplitFrom(s, sep, i) ==
    LET j == Index(s, sep, i) IN
    IF j = 0 THEN << SubSeq(s, i, Len(s)) >>
    ELSE << SubSeq(s, i, j - 1) >> \o SplitFrom(s, sep, j + Len(sep))

\* strings.Split for a non-empty sep
Split(s, sep) == SplitFrom(s, sep, 1)

RECURSIVE TrimLeft(_, _)
TrimLeft(s, cutset) ==
    IF s # << >> /\ Head(s) \in cutset THEN TrimLeft(Tail(s), cutset) ELSE s

RECURSIVE TrimRight(_, _)
TrimRight(s, cutset) ==
    IF s # << >> /\ s[Len(s)] \in cutset
    THEN TrimRight(SubSeq(s, 1, Len(s) - 1), cutset)
    ELSE s

Trim(s, cutset) == TrimRight(TrimLeft(s, cutset), cutset)

TrimSpace(s) == Trim(s, Space)

HasPrefix(s, p) == HasAt(s, 1, p)

\* ----------------------------------------------- regexp `{{(.*?)}}`, all matches
NoNewline(s, a, b) == \A k \in a..b : s[k] # "\n"

RECURSIVE FindAllStringSubmatch(_, _)
\* the captured names of the successive leftmost, shortest, non-overlapping
\* matches of {{(.*?)}} in s from position i on ('.' matches no newline)
FindAllStringSubmatch(s, i) ==
    LET o == Index(s, Open, i) IN
    IF o = 0 THEN << >>
    ELSE LET c == Index(s, Close, o + 2) IN
         IF c = 0 THEN << >>
         ELSE IF NoNewline(s, o + 2, c - 1)
              THEN << SubSeq(s, o + 2, c - 1) >> \o FindAllStringSubmatch(s, c + 2)
              ELSE FindAllStringSubmatch(s, o + 1)

Range(f) == { f[x] : x \in DOMAIN f }

\* ------------------------------------------------------- Step and Config
Tag(name) == Open \o name \o Close

\* a Step as json.Unmarshal leaves it when only ID is given; MaxTurns 0
\* stands for the nil pointer (any value but 1 takes the same branch)
NewStep(id) ==
    [ID |-> id, Type |-> "text", Prompt |-> << >>, Filename |-> << >>,
     Content |-> << >>, If |-> << >>, Source |-> << >>, MaxTurns |-> 0,
     Tool |-> << >>, Args |-> << >>]

idA == << "A" >>
idB == << "B" >>
idC == << "C" >>

SkipSentinelEmpty == << >>

SkipSentinel == << "Skipped (Condition met)" >>

EndToken == << "__END_INTERACTION__" >>

\* what the generation provider may stream back as text
GenTexts == { << "y" >> }
\* what the human may type (never blank: Ctrl+S ignores a blank input)
HumanTexts == { << "y" >>, << "y", "\n", "n" >> }
\* the files a listed directory may hold, and what reading one may return
FileNames == { << "f" >> }
\* a byte that is not valid UTF-8 (a Latin-1 letter), and the rune
\* json.Marshal puts in its place
BadByte == "0xE9"
ReplacementRune == "U+FFFD"
FileTexts == { << "y" >>, << BadByte >> }
\* what a tool may answer, serialised
ToolTexts == { << "[", "ok", "]" >> }

\* ----------------------------------------------------- the flows explored
T(word) == << word >>

\* the flow of the testable properties: B and C both use A
FlowDiamond ==
    << [NewStep(idA) EXCEPT !.Prompt = T("hi")],
       [NewStep(idB) EXCEPT !.Prompt = T("use") \o T(" ") \o Tag(idA)],
       [NewStep(idC) EXCEPT !.Prompt = T("use") \o T(" ") \o Tag(idA)] >>

\* a file_write after a text step, with a guard the text makes false
FlowWrite ==
    << [NewStep(idA) EXCEPT !.Prompt = T("hi")],
       [NewStep(idB) EXCEPT !.Type = "file_write",
            !.If = Tag(idA) \o T(" ") \o EQ \o T(" ") \o T("'") \o T("n") \o T("'"),
            !.Filename = T("out"), !.Content = Tag(idA)] >>

\* a one-turn question whose guard is false, and a step that uses the answer
FlowAsk ==
    << [NewStep(idA) EXCEPT !.Type = "interaction", !.MaxTurns = 1,
            !.Prompt = T("ask"),
            !.If = T("a") \o T(" ") \o EQ \o T(" ") \o T("b")],
       [NewStep(idB) EXCEPT !.Prompt = Tag(idA)] >>

\* a file selector whose guard is false, and a write of the selected text
FlowPick ==
    << [NewStep(idA) EXCEPT !.Type = "selector", !.Source = T("dir"),
            !.Prompt = T("pick"),
            !.If = T("a") \o T(" ") \o NE \o T(" ") \o T("a")],
       [NewStep(idB) EXCEPT !.Type = "file_write",
            !.Filename = T("out"), !.Content = Tag(idA)] >>

\* a tool step fed by a text step, with a guard the text makes true
FlowTool ==
    << [NewStep(idA) EXCEPT !.Prompt = T("hi")],
       [NewStep(idB) EXCEPT !.Type = "mcp", !.Tool = T("t"),
            !.Args = << Tag(idA) >>,
            !.If = Tag(idA) \o T(" ") \o NE \o T(" ") \o T("'") \o T("n") \o T("'")] >>

\* a tool step that names another step in its argument only
FlowArgs ==
    << [NewStep(idA) EXCEPT !.Prompt = T("hi")],
       [NewStep(idB) EXCEPT !.Type = "mcp", !.Tool = T("t"),
            !.Args = << T("q") \o Tag(idA) >>] >>

\* a one-turn question and a write that does not depend on it
FlowBeside ==
    << [NewStep(idA) EXCEPT !.Type = "interaction", !.MaxTurns = 1,
            !.Prompt = T("q")],
       [NewStep(idB) EXCEPT !.Type = "file_write",
            !.Filename = T("out"), !.Content = T("c")] >>

\* a text step whose guard is false and a write of its result
FlowSkip ==
    << [NewStep(idA) EXCEPT !.Prompt = T("hi"),
            !.If = T("a") \o T(" ") \o EQ \o T(" ") \o T("b")],
       [NewStep(idB) EXCEPT !.Type = "file_write",
            !.Filename = T("out"), !.Content = T("got") \o Tag(idA)] >>

\* guards that are neither one == nor one != comparison
FlowOddGuard ==
    << [NewStep(idA) EXCEPT !.If = T("maybe"),
            !.Prompt = Tag(T("input")) \o Tag(T("clipboard")) \o Tag(T("zz"))],
       [NewStep(idB) EXCEPT !.Type = "file_write",
            !.If = T("a") \o EQ \o T("b") \o EQ \o T("c"),
            !.Filename = T("out"), !.Content = T("c")] >>

\* a tag after an unclosed {{ (step B) and a tag that only the
\* concatenation of two fields spells (step C)
FlowSplitTag ==
    << [NewStep(idA) EXCEPT !.Prompt = T("hi")],
       [NewStep(idB) EXCEPT !.Type = "file_write",
            !.Filename = Open \o T("x") \o Tag(idA), !.Content = T("c")],
       [NewStep(idC) EXCEPT !.Type = "file_write",
            !.Filename = T("out") \o Open, !.Content = idA \o Close] >>

\* an open-ended chat and a step that uses its transcript
FlowChat ==
    << [NewStep(idA) EXCEPT !.Type = "interaction", !.Prompt = T("chat")],
       [NewStep(idB) EXCEPT !.Prompt = Tag(idA)] >>

\* an open-ended chat that has no prompt
FlowChatBare ==
    << [NewStep(idA) EXCEPT !.Type = "interaction"] >>

\* a step that uses its own result, beside one that uses nothing
FlowSelf ==
    << [NewStep(idA) EXCEPT !.Prompt = T("more") \o T(" ") \o Tag(idA)],
       [NewStep(idB) EXCEPT !.Prompt = T("hi")] >>

\* two steps that use each other, and a third that uses one of them
FlowCycle ==
    << [NewStep(idA) EXCEPT !.Prompt = Tag(idB)],
       [NewStep(idB) EXCEPT !.Type = "file_write", !.Filename = T("out"),
            !.Content = Tag(idA)],
       [NewStep(idC) EXCEPT !.Prompt = T("use") \o T(" ") \o Tag(idA)] >>

\* a step whose own tag stands after an unclosed {{
FlowOddSelf ==
    << [NewStep(idA) EXCEPT !.Type = "file_write",
            !.Filename = Open \o T("x") \o Tag(idA), !.Content = T("c")] >>

RECURSIVE JoinPrompts(_)
JoinPrompts(steps) ==
    IF steps = << >> THEN << >>
    ELSE LET one == Head(steps).ID \o << ":" >> \o Head(steps).Prompt IN
         IF Len(steps) = 1 THEN one
         ELSE one \o << "," >> \o JoinPrompts(Tail(steps))

\* json.MarshalIndent of a configuration, of which the texts keep the
\* steps' ids and prompts
MarshalIndent(steps) == << "{" >> \o JoinPrompts(steps) \o << "}" >>

\* json.Unmarshal into a Config: the id and the prompt of each step (an id
\* that is not given is left empty), no step when the text is no JSON object
Unmarshal(text) ==
    IF Len(text) >= 2 /\ Head(text) = "{" /\ text[Len(text)] = "}"
    THEN LET inner == SubSeq(text, 2, Len(text) - 1)
             pieces == IF inner = << >> THEN << >> ELSE Split(inner, << "," >>)
             step(x) == IF Contains(x, << ":" >>)
                        THEN LET id == Split(x, << ":" >>)[1] IN
                             [ID |-> id,
                              Prompt |-> SubSeq(x, Len(id) + 2, Len(x))]
                        ELSE [ID |-> << >>, Prompt |-> x]
         IN  [k \in DOMAIN pieces |-> step(pieces[k])]
    ELSE << >>

\* a flow editor opened on the draft of a two-step flow
FlowEdit ==
    << [NewStep(idA) EXCEPT !.Type = "flow_editor",
            !.Prompt = MarshalIndent(<< [ID |-> T("s"), Prompt |-> T("p")],
                                        [ID |-> T("t"), Prompt |-> T("q")] >>)] >>

\* two steps that use the clipboard, one after the other
FlowClip ==
    << [NewStep(idA) EXCEPT !.Prompt = Tag(T("clipboard"))],
       [NewStep(idB) EXCEPT !.Type = "file_write",
            !.Filename = Tag(T("clipboard")), !.Content = Tag(idA)] >>

Flows ==
    { FlowDiamond, FlowWrite, FlowAsk, FlowPick, FlowTool, FlowOddGuard,
      FlowSplitTag, FlowChat, FlowChatBare, FlowSelf, FlowCycle, FlowOddSelf,
      FlowEdit, FlowClip, FlowArgs, FlowBeside }

\* ------------------------------------------------------------------ state
VARIABLES
    conf,        \* conf.Steps, read once from the flow definition
    userInput,   \* the command-line argument string
    sysClip,     \* the system clipboard (pbpaste reads it, pbcopy writes it)
    results,     \* the Result Store: step id -> text, absent ids not in DOMAIN
    histories,   \* step id -> chat transcript
    pc,          \* position of each step's task, by index in conf.Steps
    res,         \* the local res of each task
    loc,         \* the other locals of each task
    inputChan,   \* the goroutines blocked sending on inputChan, as a bag
    nKeys,       \* key presses that have reached inputChan so far
    cur,         \* the message the event loop has received and not yet handled
    alive,       \* the tea.Program is running (p.Run has not returned)
    m,           \* the FlowModel
    bg,          \* position of main's background goroutine
    finalResult, \* its local finalResult
    logOut,      \* the session log written, NoLog before
    proc,        \* the process: running or exited, and its exit status
    fs,          \* directories created and files written by file_write steps
    faults,      \* the steps during which a provider returned an error
    nCalls,      \* function calls the generation provider has requested so far
    mu           \* the tasks that have passed mu.Lock() and not yet mu.Unlock()

taskVars == << pc, res, loc >>
storeVars == << results, histories >>
tuiVars == << cur, alive, m >>
mainVars == << bg, finalResult, logOut, proc >>
envVars == << conf, userInput, sysClip, fs, faults, inputChan, nKeys, nCalls >>
vars == << taskVars, storeVars, tuiVars, mainVars, envVars, mu >>

Steps == DOMAIN conf
None == [type |-> "none"]
NoLog == [written |-> FALSE]

\* ------------------------------------------------ depsReady and fillTags
validIDs == { conf[i].ID : i \in Steps }

Lookup(k) == IF k \in DOMAIN results THEN results[k] ELSE << >>

combined(s) == s.Prompt \o s.Filename \o s.Content \o s.If \o s.Source

\* the step ids depsReady makes the task of s wait for
blockingDeps(s) ==
    { t \in Range(FindAllStringSubmatch(combined(s), 1)) : t \in validIDs }

depsReadyNoWait(s) == TRUE

depsReady(s) == \A t \in blockingDeps(s) : Lookup(t) # << >>

RECURSIVE Perms(_)
\* the orders in which a range over a map may visit its keys
Perms(S) ==
    IF S = {} THEN { << >> }
    ELSE UNION { { << x >> \o q : q \in Perms(S \ {x}) } : x \in S }

RECURSIVE FillOrder(_, _)
FillOrder(text, ord) ==
    IF ord = << >> THEN text
    ELSE FillOrder(ReplaceAll(text, Tag(Head(ord)), results[Head(ord)]), Tail(ord))

fillTagsNewline(prompt) == { prompt \o T("\n") }

\* the texts fillTags(prompt) may return in the current state
fillTags(prompt) ==
    LET r1 == IF Contains(prompt, Tag(T("clipboard")))
              THEN ReplaceAll(prompt, Tag(T("clipboard")), sysClip)
              ELSE prompt
        r2 == IF Contains(r1, Tag(T("input")))
              THEN ReplaceAll(r1, Tag(T("input")), userInput)
              ELSE r1
    IN  { FillOrder(r2, ord) : ord \in Perms(DOMAIN results) }

\* ------------------------------------------------------ the guard evaluator
Differ(parts) == TrimSpace(parts[1]) # Trim(TrimSpace(parts[2]), Quotes)

shouldRunSwapped(cond) ==
    IF Contains(cond, NE)
    THEN LET parts == Split(cond, NE) IN
         IF Len(parts) = 2 THEN ~Differ(parts) ELSE TRUE
    ELSE IF Contains(cond, EQ)
    THEN LET parts == Split(cond, EQ) IN
         IF Len(parts) = 2 THEN Differ(parts) ELSE TRUE
    ELSE TRUE

shouldRunStrict(cond) ==
    IF Contains(cond, NE)
    THEN LET parts == Split(cond, NE) IN
         IF Len(parts) = 2 THEN Differ(parts) ELSE FALSE
    ELSE IF Contains(cond, EQ)
    THEN LET parts == Split(cond, EQ) IN
         IF Len(parts) = 2 THEN ~Differ(parts) ELSE FALSE
    ELSE FALSE

\* shouldRun as the three copies of the guard code compute it from the
\* substituted guard cond
shouldRun(cond) ==
    IF Contains(cond, NE)
    THEN LET parts == Split(cond, NE) IN
         IF Len(parts) = 2 THEN Differ(parts) ELSE TRUE
    ELSE IF Contains(cond, EQ)
    THEN LET parts == Split(cond, EQ) IN
         IF Len(parts) = 2 THEN ~Differ(parts) ELSE TRUE
    ELSE TRUE

\* -------------------------------------------------------------------- Init
LocInit ==
    [shouldRun |-> TRUE, filledPrompt |-> << >>, fname |-> << >>,
     content |-> << >>, sourcePath |-> << >>, args |-> << >>,
     history |-> << >>, contents |-> << >>, newMessages |-> << >>,
     fullText |-> << >>, streamed |-> << >>, sent |-> << >>,
     fc |-> << >>, toolOk |-> TRUE, fileList |-> {},
     selectedFile |-> << >>]

ModelInit ==
    [Steps |-> [i \in Steps |-> "Pending"], InputMode |-> FALSE,
     ListMode |-> FALSE, CurrentStepID |-> << >>, List |-> {},
     Quitting |-> FALSE, Err |-> << >>, Result |-> << >>,
     EditorMode |-> FALSE, ClipboardContent |-> sysClip,
     FlowEditor |-> [Config |-> << >>, SelectedIdx |-> 0, Editing |-> FALSE]]

Init ==
    /\ conf \in Flows
    /\ userInput = T("arg")
    /\ sysClip = T("clip")
    /\ results = << >>
    /\ histories = << >>
    /\ pc = [i \in Steps |-> "wait"]
    /\ res = [i \in Steps |-> << >>]
    /\ loc = [i \in Steps |-> LocInit]
    /\ inputChan = EmptyBag
    /\ nKeys = 0
    /\ cur = None
    /\ alive = TRUE
    /\ m = ModelInit
    /\ bg = "runFlow"
    /\ finalResult = << >>
    /\ logOut = NoLog
    /\ proc = [state |-> "running", status |-> 0]
    /\ fs = [dirs |-> {}, files |-> << >>]
    /\ faults = [gen |-> {}, tool |-> {}, io |-> {}]
    /\ nCalls = 0
    /\ mu = {}

\* ------------------------------------------------------- the step tasks
Running == proc.state = "running"

PutAlone(f, k, v) == [x \in {k} |-> v]

Put(f, k, v) == [x \in DOMAIN f \cup {k} |-> IF x = k THEN v ELSE f[x]]

model(text) == [Role |-> "model", Kind |-> "text", Text |-> text]
userAsModel(text) == [Role |-> "model", Kind |-> "text", Text |-> text]

user(text) == [Role |-> "user", Kind |-> "text", Text |-> text]

\* the history converted for the provider: every role but model is user
Contents(history) ==
    [k \in DOMAIN history |->
        [history[k] EXCEPT !.Role = IF @ = "model" THEN "model" ELSE "user"]]

FirstPcGuard(s) == "guard"

FirstPc(s) ==
    CASE s.Type = "interaction" -> "iFill"
      [] s.Type = "flow_editor" -> "eFill"
      [] s.Type = "selector" -> "sFill"
      [] OTHER -> "guard"

TypePc(s) ==
    CASE s.Type = "file_write" -> "wName"
      [] s.Type = "mcp" -> "mArgs"
      [] OTHER -> "tFill"

AfterExecDone(r) == IF r = << >> THEN "sendFailed" ELSE "sendDone"

AfterExecPublishes(r) == "publish"

\* if res == "" the task reports the failure and exits, else it publishes
AfterExec(r) == IF r = << >> THEN "sendFailed" ELSE "publish"

AfterGuardIgnored(s, run) == TypePc(s)

\* if shouldRun the type's executor runs, else res is the sentinel
AfterGuard(s, run) == IF run THEN TypePc(s) ELSE AfterExec(SkipSentinel)

\* for !depsReady(s, validIDs) { time.Sleep(...) }
Wait(i) ==
    /\ Running /\ pc[i] = "wait"
    /\ depsReady(conf[i])
    /\ pc' = [pc EXCEPT ![i] = "sendStarted"]
    /\ UNCHANGED << res, loc, storeVars, tuiVars, mainVars, envVars >>

\* the shouldRun block of the file_write, mcp and text branches
Guard(i) ==
    /\ Running /\ pc[i] = "guard"
    /\ \E cond \in (IF conf[i].If # << >> THEN fillTags(conf[i].If) ELSE { << >> }) :
         LET run == IF conf[i].If # << >> THEN shouldRun(cond) ELSE TRUE IN
         /\ loc' = [loc EXCEPT ![i].shouldRun = run]
         /\ res' = [res EXCEPT ![i] = IF run THEN @ ELSE SkipSentinel]
         /\ pc' = [pc EXCEPT ![i] = AfterGuard(conf[i], run)]
    /\ UNCHANGED << storeVars, tuiVars, mainVars, envVars >>

\* text: prompt := fillTags(s.Prompt); history := {user prompt}
TextFill(i) ==
    /\ Running /\ pc[i] = "tFill"
    /\ \E prompt \in fillTags(conf[i].Prompt) :
         loc' = [loc EXCEPT ![i].filledPrompt = prompt,
                            ![i].history = << user(prompt) >>,
                            ![i].contents = Contents(<< user(prompt) >>),
                            ![i].newMessages = << >>]
    /\ pc' = [pc EXCEPT ![i] = "gen"]
    /\ UNCHANGED << res, storeVars, tuiVars, mainVars, envVars >>

\* file_write: fname := fillTags(s.Filename)
WriteName(i) ==
    /\ Running /\ pc[i] = "wName"
    /\ \E fname \in fillTags(conf[i].Filename) :
         loc' = [loc EXCEPT ![i].fname = fname]
    /\ pc' = [pc EXCEPT ![i] = "wContent"]
    /\ UNCHANGED << res, storeVars, tuiVars, mainVars, envVars >>

\* the three-backquote code fence, as one character run
Fence == T("FENCE")
HasSuffix(s, p) == HasAt(s, Len(s) - Len(p) + 1, p)
TrimPrefix(s, p) == IF HasPrefix(s, p) THEN SubSeq(s, Len(p) + 1, Len(s)) ELSE s
TrimSuffix(s, p) == IF HasSuffix(s, p) THEN SubSeq(s, 1, Len(s) - Len(p)) ELSE s

cleanMarkdown(data) ==
    LET strData == TrimSpace(data) IN
    IF HasPrefix(strData, Fence \o T("json"))
    THEN TrimSpace(TrimSuffix(TrimPrefix(strData, Fence \o T("json")), Fence))
    ELSE IF HasPrefix(strData, Fence)
    THEN TrimSpace(TrimSuffix(TrimPrefix(strData, Fence), Fence))
    ELSE TrimSpace(strData)

\* file_write: content := fillTags(s.Content), cleaned for a .json file
WriteContent(i) ==
    /\ Running /\ pc[i] = "wContent"
    /\ \E content \in fillTags(conf[i].Content) :
         loc' = [loc EXCEPT ![i].content =
                    IF HasSuffix(loc[i].fname, T(".json"))
                    THEN cleanMarkdown(content) ELSE content]
    /\ pc' = [pc EXCEPT ![i] = "wWrite"]
    /\ UNCHANGED << res, storeVars, tuiVars, mainVars, envVars >>

HomePath(name) ==
    IF ~HasPrefix(name, T(".") \o T("/")) /\ HasPrefix(name, T("~") \o T("/"))
    THEN T("/home") \o T("/") \o SubSeq(name, 3, Len(name))
    ELSE name

\* file_write: os.MkdirAll(dir), os.WriteFile(fname, content), which may fail
WriteFile(i) ==
    /\ Running /\ pc[i] = "wWrite"
    /\ LET fname == HomePath(loc[i].fname) IN
       \E ok \in BOOLEAN :
         /\ fs' = [dirs |-> fs.dirs \cup {fname},
                   files |-> IF ok THEN Put(fs.files, fname, loc[i].content)
                             ELSE fs.files]
         /\ res' = [res EXCEPT ![i] =
                      IF ok THEN T("File saved to") \o T(" ") \o fname
                      ELSE T("Error writing file:") \o T(" ") \o T("err")]
         /\ faults' = IF ok THEN faults ELSE [faults EXCEPT !.io = @ \cup {i}]
         /\ pc' = [pc EXCEPT ![i] = AfterExec(res'[i])]
    /\ UNCHANGED << loc, storeVars, tuiVars, mainVars, conf, userInput, sysClip,
                    inputChan, nKeys, nCalls >>

\* mcp: args[k] = fillTags(strVal), one argument at a time
ToolArgs(i) ==
    /\ Running /\ pc[i] = "mArgs"
    /\ Len(loc[i].args) < Len(conf[i].Args)
    /\ \E a \in fillTags(conf[i].Args[Len(loc[i].args) + 1]) :
         loc' = [loc EXCEPT ![i].args = Append(@, a)]
    /\ UNCHANGED << pc, res, storeVars, tuiVars, mainVars, envVars >>

ToolError(name) ==
    T("Error calling tool") \o T(" ") \o name \o T(":") \o T(" ") \o T("err")

\* mcp: mcpManager.CallTool(ctx, s.Tool, args), which may return an error
ToolCall(i) ==
    /\ Running /\ pc[i] = "mArgs"
    /\ Len(loc[i].args) = Len(conf[i].Args)
    /\ \/ \E r \in ToolTexts :
            /\ res' = [res EXCEPT ![i] = r]
            /\ faults' = faults
       \/ /\ res' = [res EXCEPT ![i] = ToolError(conf[i].Tool)]
          /\ faults' = [faults EXCEPT !.tool = @ \cup {i}]
    /\ pc' = [pc EXCEPT ![i] = AfterExec(res'[i])]
    /\ UNCHANGED << loc, storeVars, tuiVars, mainVars, conf, userInput, sysClip,
                    fs, inputChan, nKeys, nCalls >>

\* interaction: filledPrompt := fillTags(s.Prompt); the loop's history is
\* seeded with it as a model turn when it is not empty
AskFill(i) ==
    /\ Running /\ pc[i] = "iFill"
    /\ \E fp \in fillTags(conf[i].Prompt) :
         /\ loc' = [loc EXCEPT ![i].filledPrompt = fp,
                       ![i].history = IF conf[i].MaxTurns # 1 /\ fp # << >>
                                      THEN << model(fp) >> ELSE << >>]
         /\ pc' = [pc EXCEPT ![i] = IF fp # << >> THEN "iSendOut" ELSE "iSendReq"]
    /\ UNCHANGED << res, storeVars, tuiVars, mainVars, envVars >>

SerializeBlank(history) == << >>

RECURSIVE Serialize(_)
\* the history rendered as User:/AI: lines
Serialize(history) ==
    IF history = << >> THEN << >>
    ELSE LET msg == Head(history)
             role == IF msg.Role = "model" THEN T("AI") ELSE T("User")
             body == CASE msg.Kind = "text" -> msg.Text
                       [] msg.Kind = "functionCall" -> T("[Tool Call]")
                       [] OTHER -> T("[Tool Result]")
         IN  role \o T(":") \o T(" ") \o body \o T("\n") \o Serialize(Tail(history))

\* interaction: userIn := <-inputChan, then the one-turn result, the end of
\* the loop, or the next turn of it
AskRecv(i) ==
    /\ Running /\ pc[i] = "iRecv"
    /\ \E v \in BagToSet(inputChan) :
         /\ inputChan' = inputChan (-) SetToBag({v})
         /\ IF conf[i].MaxTurns = 1
            THEN /\ res' = [res EXCEPT ![i] = v]
                 /\ pc' = [pc EXCEPT ![i] = AfterExec(v)]
                 /\ UNCHANGED << loc, histories >>
            ELSE IF v = EndToken
            THEN /\ res' = [res EXCEPT ![i] = Serialize(loc[i].history)]
                 /\ histories' = Put(histories, conf[i].ID, loc[i].history)
                 /\ pc' = [pc EXCEPT ![i] = AfterExec(res'[i])]
                 /\ UNCHANGED loc
            ELSE /\ loc' = [loc EXCEPT ![i].history = Append(@, user(v)),
                                       ![i].contents =
                                          Contents(Append(loc[i].history, user(v))),
                                       ![i].newMessages = << >>]
                 /\ pc' = [pc EXCEPT ![i] = "gen"]
                 /\ UNCHANGED << res, histories >>
    /\ UNCHANGED << results, tuiVars, mainVars, conf, userInput, sysClip, fs,
                    faults, nKeys, nCalls >>

\* flow_editor: jsonContent := fillTags(s.Prompt)
EditFill(i) ==
    /\ Running /\ pc[i] = "eFill"
    /\ \E fp \in fillTags(conf[i].Prompt) :
         loc' = [loc EXCEPT ![i].filledPrompt = fp]
    /\ pc' = [pc EXCEPT ![i] = "eSendReq"]
    /\ UNCHANGED << res, storeVars, tuiVars, mainVars, envVars >>

\* flow_editor: res = <-inputChan
EditRecv(i) ==
    /\ Running /\ pc[i] = "eRecv"
    /\ \E v \in BagToSet(inputChan) :
         /\ inputChan' = inputChan (-) SetToBag({v})
         /\ res' = [res EXCEPT ![i] = v]
         /\ pc' = [pc EXCEPT ![i] = AfterExec(v)]
    /\ UNCHANGED << loc, storeVars, tuiVars, mainVars, conf, userInput, sysClip,
                    fs, faults, nKeys, nCalls >>

\* selector: sourcePath := fillTags(s.Source); os.ReadDir fails or lists files
PickFill(i) ==
    /\ Running /\ pc[i] = "sFill"
    /\ \E sp \in fillTags(conf[i].Source) :
         \/ /\ loc' = [loc EXCEPT ![i].sourcePath = HomePath(sp)]
            /\ res' = [res EXCEPT ![i] = << >>]
            /\ pc' = [pc EXCEPT ![i] = AfterExec(<< >>)]
            /\ faults' = [faults EXCEPT !.io = @ \cup {i}]
         \/ \E files \in SUBSET FileNames :
              /\ loc' = [loc EXCEPT ![i].sourcePath = HomePath(sp),
                                    ![i].fileList = files]
              /\ pc' = [pc EXCEPT ![i] = "sSendReq"]
              /\ res' = res
              /\ faults' = faults
    /\ UNCHANGED << storeVars, tuiVars, mainVars, conf, userInput, sysClip, fs,
                    inputChan, nKeys, nCalls >>

\* selector: selectedFile := <-inputChan; os.ReadFile fails or returns text
PickRecv(i) ==
    /\ Running /\ pc[i] = "sRecv"
    /\ \E v \in BagToSet(inputChan) :
         /\ inputChan' = inputChan (-) SetToBag({v})
         /\ loc' = [loc EXCEPT ![i].selectedFile = v]
         /\ \/ /\ res' = [res EXCEPT ![i] = << >>]
               /\ pc' = [pc EXCEPT ![i] = AfterExec(<< >>)]
               /\ faults' = [faults EXCEPT !.io = @ \cup {i}]
            \/ \E content \in FileTexts \cup { << >> } :
                 /\ res' = [res EXCEPT ![i] = content]
                 /\ pc' = [pc EXCEPT ![i] = AfterExec(content)]
                 /\ faults' = faults
    /\ UNCHANGED << storeVars, tuiVars, mainVars, conf, userInput, sysClip, fs,
                    nKeys, nCalls >>

\* ------------------------------------------------------- callGeminiChat
\* what callGeminiChat returns when the stream yields an error
GenErrorResultText == T("err")

GenErrorResult == << >>

\* the stream yields an error
GenError(i) ==
    /\ Running /\ pc[i] = "gen"
    /\ faults' = [faults EXCEPT !.gen = @ \cup {i}]
    /\ loc' = [loc EXCEPT ![i].fullText = GenErrorResult]
    /\ pc' = [pc EXCEPT ![i] = "genReturn"]
    /\ UNCHANGED << res, storeVars, tuiVars, mainVars, conf, userInput, sysClip,
                    fs, inputChan, nKeys, nCalls >>

\* the stream ends with neither text nor a function call
GenEmpty(i) ==
    /\ Running /\ pc[i] = "gen"
    /\ loc' = [loc EXCEPT ![i].fullText = << >>]
    /\ pc' = [pc EXCEPT ![i] = "genReturn"]
    /\ UNCHANGED << res, storeVars, tuiVars, mainVars, envVars >>

\* the stream carries text
GenText(i) ==
    /\ Running /\ pc[i] = "gen"
    /\ \E t \in GenTexts :
         loc' = [loc EXCEPT ![i].fullText = t, ![i].fc = << >>]
    /\ pc' = [pc EXCEPT ![i] = "genStreamStart"]
    /\ UNCHANGED << res, storeVars, tuiVars, mainVars, envVars >>

\* the cap on the provider's function calls: the one-step chat explores
\* the loop deeper than the other flows
CallLimit == IF conf = FlowChatBare THEN MaxChatCalls ELSE MaxToolCalls

\* the text a stream may carry before its function call; it is explored
\* where it bears on a result: for a text step that is the first step of
\* its flow, on the first function call of a run
TextsBeforeCall(i) ==
    IF conf[i].Type = "interaction" \/ i > 1 \/ nCalls > 0 THEN { << >> }
    ELSE GenTexts \cup { << >> }

\* the stream carries a function call, after text or without any
GenFunctionCall(i) ==
    /\ Running /\ pc[i] = "gen"
    /\ nCalls < CallLimit
    /\ nCalls' = nCalls + 1
    /\ \E t \in TextsBeforeCall(i) :
         /\ loc' = [loc EXCEPT ![i].fc = T("t"), ![i].fullText = t]
         /\ pc' = [pc EXCEPT ![i] = IF t = << >> THEN "genSendCall"
                                   ELSE "genStreamStart"]
    /\ UNCHANGED << res, storeVars, tuiVars, mainVars, conf, userInput, sysClip,
                    fs, faults, inputChan, nKeys >>

callTurn(name) ==
    [Role |-> "model", Kind |-> "functionCall", Name |-> name, Text |-> name]

responseTurnUnnamed(name, ok) ==
    [Role |-> "function", Kind |-> "functionResponse", Name |-> << >>,
     Text |-> IF ok THEN T("content") ELSE T("error")]

responseTurn(name, ok) ==
    [Role |-> "function", Kind |-> "functionResponse", Name |-> name,
     Text |-> IF ok THEN T("content") ELSE T("error")]

\* the function call is recorded and the tool is called (it may fail)
GenTool(i) ==
    /\ Running /\ pc[i] = "genTool"
    /\ \E ok \in BOOLEAN :
         /\ loc' = [loc EXCEPT ![i].toolOk = ok,
                       ![i].newMessages = Append(@, callTurn(loc[i].fc))]
         /\ faults' = IF ok THEN faults ELSE [faults EXCEPT !.tool = @ \cup {i}]
    /\ pc' = [pc EXCEPT ![i] = "genSendResult"]
    /\ UNCHANGED << res, storeVars, tuiVars, mainVars, conf, userInput, sysClip,
                    fs, inputChan, nKeys, nCalls >>

\* the function response is recorded, the call and the response are
\* appended to contents, and the loop goes on to the next stream
GenRecord(i) ==
    /\ Running /\ pc[i] = "genRecord"
    /\ LET fr == responseTurn(loc[i].fc, loc[i].toolOk) IN
       loc' = [loc EXCEPT ![i].newMessages = Append(@, fr),
                          ![i].contents =
                             @ \o Contents(<< callTurn(loc[i].fc), fr >>)]
    /\ pc' = [pc EXCEPT ![i] = "gen"]
    /\ UNCHANGED << res, storeVars, tuiVars, mainVars, envVars >>

\* callGeminiChat returns to the interaction loop or to the text branch,
\* which stores the history and takes the text as res
GenReturn(i) ==
    /\ Running /\ pc[i] = "genReturn"
    /\ LET aiRes == loc[i].fullText
           full == loc[i].history \o loc[i].newMessages \o << model(aiRes) >>
       IN IF conf[i].Type = "interaction"
          THEN /\ loc' = [loc EXCEPT ![i].history = full]
               /\ pc' = [pc EXCEPT ![i] = "iSendReq"]
               /\ UNCHANGED << res, histories >>
          ELSE /\ res' = [res EXCEPT ![i] = aiRes]
               /\ histories' = Put(histories, conf[i].ID, full)
               /\ pc' = [pc EXCEPT ![i] = AfterExec(aiRes)]
               /\ UNCHANGED loc
    /\ UNCHANGED << results, tuiVars, mainVars, envVars >>

\* ------------------------------------------------- the end of every task
\* mu.Lock(); results[s.ID] = res; mu.Unlock()
Publish(i) ==
    /\ Running /\ pc[i] = "publish"
    /\ results' = Put(results, conf[i].ID, res[i])
    /\ pc' = [pc EXCEPT ![i] = "sendDone"]
    /\ UNCHANGED << res, loc, histories, tuiVars, mainVars, envVars >>

\* os.Exit(1) after the failure was reported
Exit(i) ==
    /\ Running /\ pc[i] = "exit"
    /\ proc' = [state |-> "exited", status |-> 1]
    /\ UNCHANGED << taskVars, storeVars, tuiVars, bg, finalResult, logOut, envVars >>

\* ------------------------------------------------------------- p.Send
SendPcs ==
    { "sendStarted", "iSendOut", "iSendReq", "sSendReq", "eSendReq",
      "genStreamStart",
      "genStream", "genSendCall", "genSendResult", "sendFailed", "sendDone" }

\* the message the task of step i is sending at its position
MsgOf(i) ==
    LET id == conf[i].ID IN
    CASE pc[i] = "sendStarted" -> [type |-> "StepStartedMsg", ID |-> id]
      [] pc[i] = "iSendOut" ->
            [type |-> "StepInteractionOutputMsg", ID |-> id,
             Output |-> loc[i].filledPrompt]
      [] pc[i] = "iSendReq" -> [type |-> "StepInteractionRequiredMsg", ID |-> id]
      [] pc[i] = "sSendReq" ->
            [type |-> "StepSelectorRequiredMsg", ID |-> id,
             Files |-> loc[i].fileList]
      [] pc[i] = "eSendReq" ->
            [type |-> "StepFlowEditorRequiredMsg", ID |-> id,
             JSONContent |-> loc[i].filledPrompt]
      [] pc[i] = "genStreamStart" -> [type |-> "StepStreamStartMsg", ID |-> id]
      [] pc[i] = "genStream" ->
            [type |-> "StepStreamMsg", ID |-> id, Chunk |-> loc[i].fullText]
      [] pc[i] = "genSendCall" ->
            [type |-> "StepToolCallMsg", ID |-> id, Name |-> loc[i].fc]
      [] pc[i] = "genSendResult" ->
            [type |-> "StepToolResultMsg", ID |-> id, Name |-> loc[i].fc,
             Success |-> loc[i].toolOk]
      [] pc[i] = "sendFailed" -> [type |-> "StepFailedMsg", ID |-> id]
      [] pc[i] = "sendDone" -> [type |-> "StepDoneMsg", ID |-> id]

AfterFailedSendReturns == "done"

\* after p.Send(StepFailedMsg) the task calls os.Exit(1)
AfterFailedSend == "exit"

AfterSendReturns(i) ==
    CASE pc[i] = "sendStarted" -> FirstPc(conf[i])
      [] pc[i] = "iSendOut" -> "iSendReq"
      [] pc[i] = "iSendReq" -> "iRecv"
      [] pc[i] = "genSendCall" -> "genTool"
      [] pc[i] = "sendDone" -> "done"
      [] OTHER -> "genReturn"

\* where the task goes on when its p.Send returns
AfterSend(i) ==
    CASE pc[i] = "sendStarted" -> FirstPc(conf[i])
      [] pc[i] = "iSendOut" -> "iSendReq"
      [] pc[i] = "iSendReq" -> "iRecv"
      [] pc[i] = "sSendReq" -> "sRecv"
      [] pc[i] = "eSendReq" -> "eRecv"
      [] pc[i] = "genStreamStart" -> "genStream"
      [] pc[i] = "genStream" ->
            IF loc[i].fc # << >> THEN "genSendCall" ELSE "genReturn"
      [] pc[i] = "genSendCall" -> "genTool"
      [] pc[i] = "genSendResult" -> "genRecord"
      [] pc[i] = "sendFailed" -> AfterFailedSend
      [] pc[i] = "sendDone" -> "done"

\* p.Send(msg): hands msg to the event loop when it is ready to receive, or
\* returns at once when the program has finished; loc[i].streamed keeps
\* the chunks the task of a text step has passed to p.Send in a
\* StepStreamMsg, and loc[i].sent the types of the messages the task has
\* passed to p.Send, in order
Send(i) ==
    /\ Running /\ pc[i] \in SendPcs
    /\ \/ alive /\ cur = None /\ cur' = MsgOf(i)
       \/ ~alive /\ cur' = cur
    /\ pc' = [pc EXCEPT ![i] = AfterSend(i)]
    /\ loc' = [loc EXCEPT
                 ![i].sent = Append(@, MsgOf(i).type),
                 ![i].streamed =
                     IF pc[i] = "genStream" /\ conf[i].Type # "interaction"
                     THEN @ \o loc[i].fullText ELSE @]
    /\ UNCHANGED << res, storeVars, alive, m, mainVars, envVars >>

\* ------------------------------------------------------ FlowModel.Update
\* NewFlowEditor(jsonContent): the first step is selected when there is one
NewFlowEditor(jsonContent) ==
    LET steps == Unmarshal(cleanMarkdown(jsonContent)) IN
    [Config |-> steps, SelectedIdx |-> IF steps = << >> THEN 0 ELSE 1,
     Editing |-> FALSE]

SetState(id, st) == [i \in Steps |-> IF conf[i].ID = id THEN st ELSE m.Steps[i]]

\* the model after Update(msg) for a message sent by a task or by main
UpdateMsg(msg) ==
    CASE msg.type = "StepStartedMsg" ->
            [m EXCEPT !.Steps = SetState(msg.ID, "Running")]
      [] msg.type = "StepInteractionRequiredMsg" ->
            [m EXCEPT !.InputMode = TRUE, !.CurrentStepID = msg.ID,
                      !.Steps = SetState(msg.ID, "Waiting")]
      [] msg.type = "StepSelectorRequiredMsg" ->
            [m EXCEPT !.ListMode = TRUE, !.CurrentStepID = msg.ID,
                      !.Steps = SetState(msg.ID, "Waiting"), !.List = msg.Files]
      [] msg.type = "StepFlowEditorRequiredMsg" ->
            [m EXCEPT !.EditorMode = TRUE, !.CurrentStepID = msg.ID,
                      !.Steps = SetState(msg.ID, "Waiting"),
                      !.FlowEditor = NewFlowEditor(msg.JSONContent)]
      [] msg.type = "StepDoneMsg" ->
            [m EXCEPT !.InputMode = FALSE, !.ListMode = FALSE,
                      !.EditorMode = FALSE,
                      !.Steps = SetState(msg.ID, "Done")]
      [] msg.type = "StepFailedMsg" ->
            [m EXCEPT !.Steps = SetState(msg.ID, "Failed"), !.Err = msg.ID,
                      !.Quitting = TRUE]
      [] msg.type = "FlowFinishedMsg" ->
            [m EXCEPT !.Result = msg.Result, !.Quitting = TRUE]
      [] OTHER -> m

\* the messages on which Update returns tea.Quit
Quits(msg) == msg.type \in { "StepFailedMsg", "FlowFinishedMsg" }

\* the event loop handles the message it received
Update ==
    /\ Running /\ alive /\ cur # None
    /\ m' = UpdateMsg(cur)
    /\ alive' = ~Quits(cur)
    /\ cur' = None
    /\ UNCHANGED << taskVars, storeVars, mainVars, envVars >>

KeyReady == Running /\ alive /\ cur = None

\* go func() { inputChan <- val }()
Spawn(val) ==
    /\ nKeys < MaxKeys
    /\ nKeys' = nKeys + 1
    /\ inputChan' = inputChan (+) SetToBag({val})

\* Enter in list mode: the selected file name is sent
KeyEnter ==
    /\ KeyReady /\ ~m.EditorMode /\ m.ListMode
    /\ \E f \in m.List :
         /\ m' = [m EXCEPT !.Steps = SetState(m.CurrentStepID, "Running")]
         /\ Spawn(f)
    /\ UNCHANGED << taskVars, storeVars, cur, alive, mainVars, conf, userInput,
                    sysClip, fs, faults, nCalls >>

\* Ctrl+S in input mode with a non-blank input: the input is sent
KeyCtrlS ==
    /\ KeyReady /\ ~m.EditorMode /\ ~m.ListMode /\ m.InputMode
    /\ \E val \in HumanTexts :
         /\ m' = [m EXCEPT !.Steps = SetState(m.CurrentStepID, "Running")]
         /\ Spawn(val)
    /\ UNCHANGED << taskVars, storeVars, cur, alive, mainVars, conf, userInput,
                    sysClip, fs, faults, nCalls >>

\* Esc in input mode: the end-of-interaction token is sent
KeyEsc ==
    /\ KeyReady /\ ~m.EditorMode /\ ~m.ListMode /\ m.InputMode
    /\ Spawn(EndToken)
    /\ UNCHANGED << taskVars, storeVars, tuiVars, mainVars, conf, userInput,
                    sysClip, fs, faults, nCalls >>

\* Ctrl+S in the editor's navigation mode: the configuration is sent
EditorCtrlS ==
    /\ KeyReady /\ m.EditorMode /\ ~m.FlowEditor.Editing
    /\ m' = [m EXCEPT !.Steps = SetState(m.CurrentStepID, "Running"),
                      !.EditorMode = FALSE]
    /\ Spawn(MarshalIndent(m.FlowEditor.Config))
    /\ UNCHANGED << taskVars, storeVars, cur, alive, mainVars, conf, userInput,
                    sysClip, fs, faults, nCalls >>

\* Esc in the editor's navigation mode: "no" is sent
EditorEsc ==
    /\ KeyReady /\ m.EditorMode /\ ~m.FlowEditor.Editing
    /\ m' = [m EXCEPT !.EditorMode = FALSE]
    /\ Spawn(T("no"))
    /\ UNCHANGED << taskVars, storeVars, cur, alive, mainVars, conf, userInput,
                    sysClip, fs, faults, nCalls >>

\* Enter in the editor's navigation mode: the selected step's prompt is
\* opened for editing
EditorEnter ==
    /\ KeyReady /\ m.EditorMode /\ ~m.FlowEditor.Editing
    /\ m.FlowEditor.SelectedIdx \in DOMAIN m.FlowEditor.Config
    /\ m' = [m EXCEPT !.FlowEditor.Editing = TRUE]
    /\ UNCHANGED << taskVars, storeVars, cur, alive, mainVars, envVars >>

\* a key that moves the selection of the step list in navigation mode
EditorMove ==
    /\ KeyReady /\ m.EditorMode /\ ~m.FlowEditor.Editing
    /\ \E idx \in DOMAIN m.FlowEditor.Config \ { m.FlowEditor.SelectedIdx } :
         m' = [m EXCEPT !.FlowEditor.SelectedIdx = idx]
    /\ UNCHANGED << taskVars, storeVars, cur, alive, mainVars, envVars >>

\* Esc while editing: the edit is dropped
EditingEsc ==
    /\ KeyReady /\ m.EditorMode /\ m.FlowEditor.Editing
    /\ m' = [m EXCEPT !.FlowEditor.Editing = FALSE]
    /\ UNCHANGED << taskVars, storeVars, cur, alive, mainVars, envVars >>

\* Ctrl+S while editing: the text area's value becomes the prompt of the
\* selected step
EditingCtrlS ==
    /\ KeyReady /\ m.EditorMode /\ m.FlowEditor.Editing
    /\ \E val \in HumanTexts \cup
                  { m.FlowEditor.Config[m.FlowEditor.SelectedIdx].Prompt } :
         m' = [m EXCEPT !.FlowEditor.Editing = FALSE,
                        !.FlowEditor.Config[m.FlowEditor.SelectedIdx].Prompt = val]
    /\ UNCHANGED << taskVars, storeVars, cur, alive, mainVars, envVars >>

CtrlCQuitsAlways == TRUE

\* whether Update answers a Ctrl+C with tea.Quit: in the editor the key is
\* passed to the step list, whose force-quit binding ends the program, but
\* while a prompt is edited it is passed to the text area
CtrlCQuits == m.EditorMode => ~m.FlowEditor.Editing

\* Ctrl+C in the editor
EditorCtrlC ==
    /\ KeyReady /\ m.EditorMode /\ CtrlCQuits
    /\ alive' = FALSE
    /\ UNCHANGED << taskVars, storeVars, cur, m, mainVars, envVars >>

\* Ctrl+C outside the editor (or q outside the input modes): the program
\* quits
KeyCtrlC ==
    /\ KeyReady /\ ~m.EditorMode
    /\ m' = [m EXCEPT !.Quitting = TRUE]
    /\ alive' = FALSE
    /\ UNCHANGED << taskVars, storeVars, cur, mainVars, envVars >>

\* something else than the flow puts a text on the system clipboard; the
\* change is followed in the flows that read the clipboard
ClipChange ==
    /\ Running /\ sysClip # T("copied")
    /\ \E i \in Steps : Contains(combined(conf[i]), Tag(T("clipboard")))
    /\ sysClip' = T("copied")
    /\ UNCHANGED << taskVars, storeVars, tuiVars, mainVars, conf, userInput, fs,
                    faults, inputChan, nKeys, nCalls >>

\* ---------------------------------------- main and its background goroutine
firstStep == conf[1]

\* conf.Steps[len(conf.Steps)-1]
lastStep == conf[Len(conf)]

\* os.Args[1], the name the flow was loaded by
flowName == T("name")

\* json.MarshalIndent followed by a re-read: a string comes back as it was
\* except that bytes that are not valid UTF-8 come back as U+FFFD
ToValidUTF8(text) ==
    [k \in 1..Len(text) |->
       IF text[k] = BadByte THEN ReplacementRune ELSE text[k]]

\* wg.Wait() returns; finalResult := results[last step's ID]
RunFlowReturns ==
    /\ Running /\ bg = "runFlow"
    /\ \A i \in Steps : pc[i] = "done"
    /\ finalResult' = Lookup(lastStep.ID)
    /\ bg' = "copy"
    /\ UNCHANGED << taskVars, storeVars, tuiVars, logOut, proc, envVars >>

\* copyToClipboard(finalResult)
CopyToClipboard ==
    /\ Running /\ bg = "copy"
    /\ sysClip' = finalResult
    /\ bg' = "save"
    /\ UNCHANGED << taskVars, storeVars, tuiVars, finalResult, logOut, proc,
                    conf, userInput, fs, faults, inputChan, nKeys, nCalls >>

\* saveSessionLog: the steps with their outputs and histories merged in
SaveSessionLog ==
    /\ Running /\ bg = "save"
    /\ logOut' =
         [written |-> TRUE, FlowName |-> ToValidUTF8(flowName),
          Input |-> ToValidUTF8(userInput),
          Clipboard |-> ToValidUTF8(m.ClipboardContent),
          Steps |-> [i \in Steps |->
                       [ID |-> conf[i].ID,
                        Output |-> ToValidUTF8(Lookup(conf[i].ID)),
                        History |-> IF conf[i].ID \in DOMAIN histories
                                    THEN histories[conf[i].ID] ELSE << >>]]]
    /\ bg' = "sendFinished"
    /\ UNCHANGED << taskVars, storeVars, tuiVars, finalResult, proc, envVars >>

\* p.Send(FlowFinishedMsg{Result: finalResult})
SendFinished ==
    /\ Running /\ bg = "sendFinished"
    /\ \/ alive /\ cur = None
          /\ cur' = [type |-> "FlowFinishedMsg", Result |-> finalResult]
       \/ ~alive /\ cur' = cur
    /\ bg' = "end"
    /\ UNCHANGED << taskVars, storeVars, alive, m, finalResult, logOut, proc,
                    envVars >>

\* p.Run() has returned without an error and main returns
MainReturns ==
    /\ Running /\ ~alive
    /\ proc' = [state |-> "exited", status |-> 0]
    /\ UNCHANGED << taskVars, storeVars, tuiVars, bg, finalResult, logOut, envVars >>

\* ------------------------------------------------------ the specification
\* in Spec a store access together with its mu.Lock() and mu.Unlock() is
\* one step
Next ==
    \/ \E i \in Steps : Wait(i) /\ UNCHANGED mu
    \/ \E i \in Steps : Send(i) /\ UNCHANGED mu
    \/ \E i \in Steps : Guard(i) /\ UNCHANGED mu
    \/ \E i \in Steps : TextFill(i) /\ UNCHANGED mu
    \/ \E i \in Steps : WriteName(i) /\ UNCHANGED mu
    \/ \E i \in Steps : WriteContent(i) /\ UNCHANGED mu
    \/ \E i \in Steps : WriteFile(i) /\ UNCHANGED mu
    \/ \E i \in Steps : ToolArgs(i) /\ UNCHANGED mu
    \/ \E i \in Steps : ToolCall(i) /\ UNCHANGED mu
    \/ \E i \in Steps : AskFill(i) /\ UNCHANGED mu
    \/ \E i \in Steps : AskRecv(i) /\ UNCHANGED mu
    \/ \E i \in Steps : PickFill(i) /\ UNCHANGED mu
    \/ \E i \in Steps : PickRecv(i) /\ UNCHANGED mu
    \/ \E i \in Steps : EditFill(i) /\ UNCHANGED mu
    \/ \E i \in Steps : EditRecv(i) /\ UNCHANGED mu
    \/ \E i \in Steps : GenError(i) /\ UNCHANGED mu
    \/ \E i \in Steps : GenEmpty(i) /\ UNCHANGED mu
    \/ \E i \in Steps : GenText(i) /\ UNCHANGED mu
    \/ \E i \in Steps : GenFunctionCall(i) /\ UNCHANGED mu
    \/ \E i \in Steps : GenTool(i) /\ UNCHANGED mu
    \/ \E i \in Steps : GenRecord(i) /\ UNCHANGED mu
    \/ \E i \in Steps : GenReturn(i) /\ UNCHANGED mu
    \/ \E i \in Steps : Publish(i) /\ UNCHANGED mu
    \/ \E i \in Steps : Exit(i) /\ UNCHANGED mu
    \/ Update /\ UNCHANGED mu
    \/ KeyEnter /\ UNCHANGED mu
    \/ KeyCtrlS /\ UNCHANGED mu
    \/ KeyEsc /\ UNCHANGED mu
    \/ KeyCtrlC /\ UNCHANGED mu
    \/ EditorCtrlS /\ UNCHANGED mu
    \/ EditorEsc /\ UNCHANGED mu
    \/ EditorEnter /\ UNCHANGED mu
    \/ EditorMove /\ UNCHANGED mu
    \/ EditingEsc /\ UNCHANGED mu
    \/ EditingCtrlS /\ UNCHANGED mu
    \/ EditorCtrlC /\ UNCHANGED mu
    \/ ClipChange /\ UNCHANGED mu
    \/ RunFlowReturns /\ UNCHANGED mu
    \/ CopyToClipboard /\ UNCHANGED mu
    \/ SaveSessionLog /\ UNCHANGED mu
    \/ SendFinished /\ UNCHANGED mu
    \/ MainReturns /\ UNCHANGED mu

Spec == Init /\ [][Next]_vars

\* ------------------------------------------ the guard evaluator on its own
\* the characters guards are made of: operand letters, white space, a
\* quote and the characters of the two operators
GuardChars == { "a", "b", " ", "'", "!", "=" }

Operands == UNION { [1..k -> GuardChars] : k \in 0..MaxOperandLen }

GuardedStep(g) ==
    [NewStep(idA) EXCEPT !.Type = "file_write", !.If = g,
                         !.Filename = T("out"), !.Content = T("c")]

\* a one-step flow whose task has started and stands before its guard
InitGuard ==
    /\ \E L \in Operands, R \in Operands, op \in { EQ, NE, << >> } :
         conf = << GuardedStep(L \o op \o R) >>
    /\ userInput = T("arg")
    /\ sysClip = T("clip")
    /\ results = << >>
    /\ histories = << >>
    /\ pc = [i \in Steps |-> "guard"]
    /\ res = [i \in Steps |-> << >>]
    /\ loc = [i \in Steps |-> LocInit]
    /\ inputChan = EmptyBag
    /\ nKeys = 0
    /\ cur = None
    /\ alive = TRUE
    /\ m = [ModelInit EXCEPT !.Steps = [i \in Steps |-> "Running"]]
    /\ bg = "runFlow"
    /\ finalResult = << >>
    /\ logOut = NoLog
    /\ proc = [state |-> "running", status |-> 0]
    /\ fs = [dirs |-> {}, files |-> << >>]
    /\ faults = [gen |-> {}, tool |-> {}, io |-> {}]
    /\ nCalls = 0
    /\ mu = {}

NextGuard == \E i \in Steps : Guard(i) /\ UNCHANGED mu

SpecGuard == InitGuard /\ [][NextGuard]_vars

\* ------------------------------- the guard on a published result
\* step B is guarded by {{A}} op 'v'
FlowGuardTag(op, v) ==
    << [NewStep(idA) EXCEPT !.Type = "interaction", !.MaxTurns = 1],
       [NewStep(idB) EXCEPT !.Type = "file_write",
            !.If = Tag(idA) \o << " " >> \o op \o << " ", "'" >> \o v \o << "'" >>,
            !.Filename = T("out"), !.Content = T("c")] >>

\* A has published a result, B has started and stands before its guard
InitGuardTag ==
    /\ \E op \in { EQ, NE }, v \in { << "a" >>, << "b" >> } :
         conf = FlowGuardTag(op, v)
    /\ userInput = T("arg")
    /\ sysClip = T("clip")
    /\ \E r \in Operands \ { << >> } :
         /\ results = Put(<< >>, idA, r)
         /\ res = << r, << >> >>
    /\ histories = << >>
    /\ pc = << "done", "guard" >>
    /\ loc = [i \in Steps |-> LocInit]
    /\ inputChan = EmptyBag
    /\ nKeys = 1
    /\ cur = None
    /\ alive = TRUE
    /\ m = [ModelInit EXCEPT !.Steps = << "Done", "Running" >>]
    /\ bg = "runFlow"
    /\ finalResult = << >>
    /\ logOut = NoLog
    /\ proc = [state |-> "running", status |-> 0]
    /\ fs = [dirs |-> {}, files |-> << >>]
    /\ faults = [gen |-> {}, tool |-> {}, io |-> {}]
    /\ nCalls = 0
    /\ mu = {}

SpecGuardTag == InitGuardTag /\ [][NextGuard]_vars

\* ------------------------------------------------ fillTags on its own
\* what a text to fill is made of: the tags of two steps, the two reserved
\* tags, a tag of no known name, stray braces and a word
Pieces ==
    { Tag(idA), Tag(idB), Tag(T("clipboard")), Tag(T("input")), Tag(T("zz")),
      Open, Close, T("w") }

RECURSIVE Texts(_)
Texts(n) ==
    IF n = 0 THEN { << >> }
    ELSE Texts(n - 1) \cup { t \o q : t \in Texts(n - 1), q \in Pieces }

\* what the human typed as the results of A and of B, what the clipboard
\* holds and what the command line gave (nothing, a word or a tag)
TypedA == { T("a"), Tag(idB), Tag(T("input")) }
TypedB == { T("b"), Tag(idA) }
ClipTexts == { T("c"), Tag(T("input")), T("c") \o Tag(T("clipboard")) }
ArgTexts == { << >>, T("i"), Tag(idA), Tag(T("clipboard")) }

FlowFill(x) ==
    << [NewStep(idA) EXCEPT !.Type = "interaction", !.MaxTurns = 1],
       [NewStep(idB) EXCEPT !.Type = "interaction", !.MaxTurns = 1],
       [NewStep(idC) EXCEPT !.Prompt = x] >>

\* the one-turn interactions A and B are done, the text step C has started
\* and stands before prompt := fillTags(s.Prompt)
InitFill ==
    /\ \E x \in Texts(MaxPieces) : conf = FlowFill(x)
    /\ userInput \in ArgTexts
    /\ sysClip \in ClipTexts
    /\ \E a \in TypedA, b \in TypedB :
         /\ results = Put(Put(<< >>, idA, a), idB, b)
         /\ res = << a, b, << >> >>
    /\ histories = << >>
    /\ pc = << "done", "done", "tFill" >>
    /\ loc = [i \in Steps |-> LocInit]
    /\ inputChan = EmptyBag
    /\ nKeys = 2
    /\ cur = None
    /\ alive = TRUE
    /\ m = [ModelInit EXCEPT !.Steps = << "Done", "Done", "Running" >>,
                             !.CurrentStepID = idB]
    /\ bg = "runFlow"
    /\ finalResult = << >>
    /\ logOut = NoLog
    /\ proc = [state |-> "running", status |-> 0]
    /\ fs = [dirs |-> {}, files |-> << >>]
    /\ faults = [gen |-> {}, tool |-> {}, io |-> {}]
    /\ nCalls = 0
    /\ mu = {}

NextFill == \E i \in Steps : TextFill(i) /\ UNCHANGED mu

SpecFill == InitFill /\ [][NextFill]_vars

\* ------------------------------------------- the shared lock step by step
\* file_write steps only: B and C write what A published
FlowLock ==
    << [NewStep(idA) EXCEPT !.Type = "file_write",
            !.Filename = T("out"), !.Content = T("c")],
       [NewStep(idB) EXCEPT !.Type = "file_write",
            !.Filename = T("out"), !.Content = Tag(idA)],
       [NewStep(idC) EXCEPT !.Type = "file_write",
            !.Filename = Tag(idA), !.Content = T("c")] >>

InitLock ==
    /\ conf = FlowLock
    /\ userInput = T("arg")
    /\ sysClip = T("clip")
    /\ results = << >>
    /\ histories = << >>
    /\ pc = [i \in Steps |-> "wait"]
    /\ res = [i \in Steps |-> << >>]
    /\ loc = [i \in Steps |-> LocInit]
    /\ inputChan = EmptyBag
    /\ nKeys = 0
    /\ cur = None
    /\ alive = TRUE
    /\ m = ModelInit
    /\ bg = "runFlow"
    /\ finalResult = << >>
    /\ logOut = NoLog
    /\ proc = [state |-> "running", status |-> 0]
    /\ fs = [dirs |-> {}, files |-> << >>]
    /\ faults = [gen |-> {}, tool |-> {}, io |-> {}]
    /\ nCalls = 0
    /\ mu = {}

\* the positions at which a file_write task calls depsReady or fillTags or
\* publishes
LockPcs == { "wait", "wName", "wContent", "publish" }

LockFreeAlways == TRUE

\* mu.Lock() returns only when no one holds mu
LockFree == mu = {}

\* mu.Lock() at the start of depsReady, of fillTags and of the publication
Lock(i) ==
    /\ Running /\ pc[i] \in LockPcs /\ i \notin mu
    /\ LockFree
    /\ mu' = mu \cup {i}
    /\ UNCHANGED << taskVars, storeVars, tuiVars, mainVars, envVars >>

\* depsReady returns false: mu.Unlock(), time.Sleep, and the loop goes on
PollAgain(i) ==
    /\ Running /\ pc[i] = "wait" /\ i \in mu
    /\ ~depsReady(conf[i])
    /\ mu' = mu \ {i}
    /\ UNCHANGED << taskVars, storeVars, tuiVars, mainVars, envVars >>

\* the store access of a task that holds mu, and its mu.Unlock()
Locked(i) == i \in mu /\ mu' = mu \ {i}

NextLock ==
    \/ \E i \in Steps : Lock(i)
    \/ \E i \in Steps : PollAgain(i)
    \/ \E i \in Steps : Locked(i) /\ Wait(i)
    \/ \E i \in Steps : Locked(i) /\ WriteName(i)
    \/ \E i \in Steps : Locked(i) /\ WriteContent(i)
    \/ \E i \in Steps : Locked(i) /\ Publish(i)
    \/ \E i \in Steps : Send(i) /\ UNCHANGED mu
    \/ \E i \in Steps : Guard(i) /\ UNCHANGED mu
    \/ \E i \in Steps : WriteFile(i) /\ UNCHANGED mu
    \/ Update /\ UNCHANGED mu
    \/ KeyCtrlC /\ UNCHANGED mu
    \/ RunFlowReturns /\ UNCHANGED mu
    \/ CopyToClipboard /\ UNCHANGED mu
    \/ SaveSessionLog /\ UNCHANGED mu
    \/ SendFinished /\ UNCHANGED mu
    \/ MainReturns /\ UNCHANGED mu

SpecLock == InitLock /\ [][NextLock]_vars

\* ------------------------- a provider that requests a tool on every call
\* the state after construction, whatever the flow
Fresh ==
    /\ userInput = T("arg")
    /\ sysClip = T("clip")
    /\ results = << >>
    /\ histories = << >>
    /\ pc = [i \in Steps |-> "wait"]
    /\ res = [i \in Steps |-> << >>]
    /\ loc = [i \in Steps |-> LocInit]
    /\ inputChan = EmptyBag
    /\ nKeys = 0
    /\ cur = None
    /\ alive = TRUE
    /\ m = ModelInit
    /\ bg = "runFlow"
    /\ finalResult = << >>
    /\ logOut = NoLog
    /\ proc = [state |-> "running", status |-> 0]
    /\ fs = [dirs |-> {}, files |-> << >>]
    /\ faults = [gen |-> {}, tool |-> {}, io |-> {}]
    /\ nCalls = 0
    /\ mu = {}

InitLoop == conf \in { FlowDiamond, FlowChat, FlowChatBare } /\ Fresh

\* every stream carries a function call: GenError, GenEmpty and GenText
\* never happen
NextLoop ==
    \/ \E i \in Steps : Wait(i) /\ UNCHANGED mu
    \/ \E i \in Steps : Send(i) /\ UNCHANGED mu
    \/ \E i \in Steps : Guard(i) /\ UNCHANGED mu
    \/ \E i \in Steps : TextFill(i) /\ UNCHANGED mu
    \/ \E i \in Steps : AskFill(i) /\ UNCHANGED mu
    \/ \E i \in Steps : AskRecv(i) /\ UNCHANGED mu
    \/ \E i \in Steps : GenFunctionCall(i) /\ UNCHANGED mu
    \/ \E i \in Steps : GenTool(i) /\ UNCHANGED mu
    \/ \E i \in Steps : GenRecord(i) /\ UNCHANGED mu
    \/ \E i \in Steps : Publish(i) /\ UNCHANGED mu
    \/ Update /\ UNCHANGED mu
    \/ KeyCtrlS /\ UNCHANGED mu
    \/ KeyEsc /\ UNCHANGED mu
    \/ KeyCtrlC /\ UNCHANGED mu
    \/ MainReturns /\ UNCHANGED mu

SpecLoop == InitLoop /\ [][NextLoop]_vars

\* ------------------------------------- the engine under fair scheduling
\* flows of two steps with unique step ids whose tags form no cycle
InitLive ==
    /\ conf \in { FlowWrite, FlowAsk, FlowPick, FlowTool, FlowBeside, FlowSkip }
    /\ Fresh

\* the goroutine of step i
TaskNext(i) ==
    /\ i \in Steps
    /\ \/ Wait(i) \/ Send(i) \/ Guard(i) \/ TextFill(i)
       \/ WriteName(i) \/ WriteContent(i) \/ WriteFile(i)
       \/ ToolArgs(i) \/ ToolCall(i)
       \/ AskFill(i) \/ AskRecv(i) \/ PickFill(i) \/ PickRecv(i)
       \/ GenError(i) \/ GenEmpty(i) \/ GenText(i) \/ GenFunctionCall(i)
       \/ GenTool(i) \/ GenRecord(i) \/ GenReturn(i)
       \/ Publish(i) \/ Exit(i)
    /\ UNCHANGED mu

\* main's background goroutine and main itself
MainNext ==
    /\ \/ RunFlowReturns \/ CopyToClipboard \/ SaveSessionLog
       \/ SendFinished \/ MainReturns
    /\ UNCHANGED mu

\* the tasks, the event loop, main, and a human who answers input
\* requests and never quits
NextLive ==
    \/ \E i \in Steps : TaskNext(i)
    \/ Update /\ UNCHANGED mu
    \/ MainNext
    \/ KeyEnter /\ UNCHANGED mu
    \/ KeyCtrlS /\ UNCHANGED mu
    \/ KeyEsc /\ UNCHANGED mu

\* the goroutine of step i can take a step: its dependencies are there
\* when it polls, the event loop takes its message or has finished when it
\* sends, a sender is blocked on inputChan when it receives
TaskReady(i) ==
    /\ Running /\ i \in Steps
    /\ CASE pc[i] = "wait" -> depsReady(conf[i])
         [] pc[i] \in SendPcs -> ~alive \/ cur = None
         [] pc[i] \in { "iRecv", "sRecv", "eRecv" } -> inputChan # EmptyBag
         [] pc[i] = "done" -> FALSE
         [] OTHER -> TRUE

TaskFairNone(i) == TRUE

\* the scheduler runs every goroutine that stays runnable: weak fairness
\* of TaskNext(i), with TaskReady(i) for ENABLED TaskNext(i)
TaskFair(i) == []<>(~TaskReady(i)) \/ []<><<TaskNext(i)>>_vars

\* every goroutine that can run does run, and the event loop handles the
\* message it holds
SpecLive ==
    /\ InitLive /\ [][NextLive]_vars
    /\ TaskFair(1) /\ TaskFair(2)
    /\ WF_vars(Update /\ UNCHANGED mu)
    /\ WF_vars(MainNext)

\* =========================================================== the claims
Published(i) == pc[i] \in { "sendDone", "done" }
Failed(i) == pc[i] \in { "sendFailed", "exit" }
AllPublished == \A i \in Steps : Lookup(conf[i].ID) # << >>

TemplatableFields(s) == { s.Prompt, s.Filename, s.Content, s.Source, s.If }

\* the step ids that occur as a {{tag}} inside one field of s
TagsIn(s) ==
    { d \in validIDs : \E f \in TemplatableFields(s) : Contains(f, Tag(d)) }

\* C1: a task has left the dependency wait only if every step whose id
\* occurs as a {{tag}} in one of its templatable fields has published
C1_StartsAfterDeps ==
    \A i \in Steps :
        pc[i] # "wait" => \A d \in TagsIn(conf[i]) : Lookup(d) # << >>

\* the user quit the program from the keyboard
Interrupted == m.Quitting /\ m.Err = << >> /\ m.Result = << >>

\* C2: once a step's executor has returned an empty result no result is
\* published any more, and when the process exits (the user not having
\* quit it from the keyboard) its status is not 0
C2_FailureIsFatal ==
    [][ (\E i \in Steps : Failed(i)) =>
            /\ results' = results
            /\ (proc'.state = "exited" /\ ~Interrupted') => proc'.status # 0
      ]_vars

\* C2, the exit status alone: a process that exits after an executor
\* returned an empty result, without a keyboard quit, has a status other
\* than 0
C2_ExitStatus ==
    (proc.state = "exited" /\ ~Interrupted /\ \E i \in Steps : Failed(i))
        => proc.status # 0

\* C3: in the flow A, B uses A, C uses A, neither B nor C has left the
\* dependency wait unless A's result is in the Result Store
C3_DiamondOrder ==
    conf = FlowDiamond =>
        \A i \in { 2, 3 } : pc[i] # "wait" => Lookup(idA) # << >>

\* C3 witness: B and C are both running, A having published
C3_BothRunning ==
    /\ conf = FlowDiamond
    /\ pc[2] = "gen" /\ pc[3] = "gen"
    /\ m.Steps[2] = "Running" /\ m.Steps[3] = "Running"
    /\ Lookup(idA) # << >>

\* C3, further reachable orders: B started while C still waits, and C
\* started while B still waits
C3_BFirst == conf = FlowDiamond /\ pc[2] = "gen" /\ pc[3] = "wait"
C3_CFirst == conf = FlowDiamond /\ pc[3] = "gen" /\ pc[2] = "wait"

\* the clipboard holds what it held at the start or what another program
\* put on it, and not a text the engine wrote
ClipboardUntouched == sysClip \in { T("clip"), T("copied") }

CompletionHappened ==
    \/ bg # "runFlow"
    \/ logOut.written
    \/ ~ClipboardUntouched
    \/ cur.type = "FlowFinishedMsg"
    \/ m.Result # << >>

\* C4: runFlow has returned, the clipboard or the session log was written
\* or FlowFinishedMsg was sent only if every step has a non-empty result
\* in the Result Store; a process that exited otherwise did none of these
C4_NoPartialSuccess ==
    /\ CompletionHappened => AllPublished
    /\ (proc.state = "exited" /\ ~AllPublished) =>
          /\ bg = "runFlow" /\ ~logOut.written /\ ClipboardUntouched
          /\ m.Result = << >>

\* C4 witness: a completed flow, finished message handled
C4_Completed ==
    /\ bg = "end" /\ m.Result # << >> /\ AllPublished
    /\ logOut.written /\ proc.state = "exited"

IsTextStep(i) ==
    conf[i].Type \notin { "interaction", "selector", "file_write", "mcp" }

\* C5 as stated: no step whose generation provider or tool provider
\* returned an error publishes a result or reaches Done
C5_AllErrorsFatal ==
    \A i \in Steps :
        i \in faults.gen \cup faults.tool =>
            pc[i] \notin { "publish", "sendDone", "done" }

\* C5 amended: a generation error in a text step gives the empty result and
\* the step fails; a generation error in an interaction turn does not fail
\* the step; a tool step whose tool call failed has the error description
\* as its result and is published
C5_WhichErrorsAreFatal ==
    \A i \in Steps :
        /\ (IsTextStep(i) /\ i \in faults.gen) =>
              /\ pc[i] \in { "genReturn", "sendFailed", "exit" }
              /\ res[i] = << >>
        /\ (conf[i].Type = "interaction" /\ i \in faults.gen) => ~Failed(i)
        /\ (conf[i].Type = "mcp" /\ i \in faults.tool) =>
              /\ pc[i] \in { "publish", "sendDone", "done" }
              /\ res[i] = ToolError(conf[i].Tool)

\* C5 witness: a text step has failed on a generation error
C5_TextStepFailed ==
    \E i \in Steps :
        IsTextStep(i) /\ i \in faults.gen /\ pc[i] = "exit" /\ res[i] = << >>

\* C5, the non-fatal errors are reached too: a tool step published its
\* error description, a chat went on after a generation error
C5_ToolErrorPublished ==
    \E i \in Steps :
        conf[i].Type = "mcp" /\ i \in faults.tool /\ pc[i] = "done"
C5_ChatWentOn ==
    \E i \in Steps :
        conf[i].Type = "interaction" /\ i \in faults.gen /\ pc[i] = "done"

\* the guard of step i is not empty and evaluates to false
GuardFalse(i) ==
    /\ conf[i].If # << >>
    /\ \A c \in fillTags(conf[i].If) : ~shouldRun(c)

GuardResolved(i) == pc[i] \notin { "wait", "sendStarted", "guard" }

\* C6: a step of any type whose guard evaluates to false goes from the guard
\* straight to publishing the skip sentinel
C6_GuardFirst ==
    \A i \in Steps :
        (GuardFalse(i) /\ GuardResolved(i)) =>
            /\ pc[i] \in { "publish", "sendDone", "done" }
            /\ res[i] = SkipSentinel

NoFiles == [dirs |-> {}, files |-> << >>]

\* C7: a file_write step whose guard evaluates to false never reaches its
\* file name, content or write positions, publishes exactly the skip
\* sentinel, and in the flow whose only file_write step it is the file
\* system stays as it was
C7_SkippedWrite ==
    \A i \in Steps :
        (conf[i].Type = "file_write" /\ GuardFalse(i) /\ GuardResolved(i)) =>
            /\ pc[i] \in { "publish", "sendDone", "done" }
            /\ res[i] = SkipSentinel
            /\ Published(i) => Lookup(conf[i].ID) = SkipSentinel
            /\ conf = FlowWrite => fs = NoFiles

\* C7 witness: a skipped file_write step is done
C7_SkippedDone ==
    \E i \in Steps :
        /\ conf[i].Type = "file_write" /\ GuardFalse(i) /\ pc[i] = "done"
        /\ Lookup(conf[i].ID) = SkipSentinel /\ fs = NoFiles

RECURSIVE CountFrom(_, _, _)
\* the non-overlapping occurrences of op in g from position p on
CountFrom(g, op, p) ==
    IF p + Len(op) - 1 > Len(g) THEN 0
    ELSE IF HasAt(g, p, op) THEN 1 + CountFrom(g, op, p + Len(op))
    ELSE CountFrom(g, op, p + 1)

CountOp(g, op) == CountFrom(g, op, 1)

\* a non-empty guard with neither exactly one == nor exactly one !=
UnknownGuard(g) == g # << >> /\ CountOp(g, EQ) # 1 /\ CountOp(g, NE) # 1

Occ(g, op) == { p \in 1..Len(g) : HasAt(g, p, op) }

\* s without the characters of cut at its two ends
Core(s, cut) ==
    LET keep == { p \in 1..Len(s) : s[p] \notin cut } IN
    IF keep = {} THEN << >>
    ELSE SubSeq(s, CHOOSE p \in keep : \A q \in keep : p <= q,
                   CHOOSE p \in keep : \A q \in keep : p >= q)

\* whitespace-trimmed L equals R with whitespace and then surrounding quote
\* characters removed, for the one occurrence of op in g
OperandsEqual(g, op) ==
    LET p == CHOOSE q \in Occ(g, op) : TRUE
        L == SubSeq(g, 1, p - 1)
        R == SubSeq(g, p + Len(op), Len(g))
    IN  Core(L, Space) = Core(Core(R, Space), Quotes)

\* C8: once the guard g of a step is evaluated (g holds no tag here, so it
\* is the substituted guard), shouldRun is true for the empty g, is
\* OperandsEqual for g with one == and no !=, and its negation for g with
\* one != and no ==; a == a and a != b give true, a == b gives false
C8_Evaluator ==
    \A i \in Steps :
        GuardResolved(i) =>
            LET g == conf[i].If IN
            /\ g = << >> => loc[i].shouldRun
            /\ (Cardinality(Occ(g, EQ)) = 1 /\ Occ(g, NE) = {}) =>
                  (loc[i].shouldRun <=> OperandsEqual(g, EQ))
            /\ (Cardinality(Occ(g, NE)) = 1 /\ Occ(g, EQ) = {}) =>
                  (loc[i].shouldRun <=> ~OperandsEqual(g, NE))
            /\ g = << "a", " ", "=", "=", " ", "a" >> => loc[i].shouldRun
            /\ g = << "a", " ", "=", "=", " ", "b" >> => ~loc[i].shouldRun
            /\ g = << "a", " ", "!", "=", " ", "b" >> => loc[i].shouldRun

\* C8 witness: the guard a=='b was evaluated to false and the step
\* got the skip sentinel
C8_EvaluatedFalse ==
    \E i \in Steps :
        /\ conf[i].If = << "a", "=", "=", "'", "b" >>
        /\ GuardResolved(i) /\ ~loc[i].shouldRun /\ res[i] = SkipSentinel

\* C10: the ids a task waits on are exactly the step ids that occur as a
\* {{tag}} within one templatable field, clipboard and input never among
\* them
C10_WaitSet ==
    \A i \in Steps :
        /\ blockingDeps(conf[i]) = TagsIn(conf[i])
        /\ blockingDeps(conf[i]) \cap { T("clipboard"), T("input") } = {}

\* ------------------------------------------------------------ C11 .. C13
Reserved == { T("clipboard"), T("input") }

\* the names fillTags has a value for
Resolvable == Reserved \cup DOMAIN results

Value(k) ==
    IF k = T("clipboard") THEN sysClip
    ELSE IF k = T("input") THEN userInput
    ELSE results[k]

RECURSIVE SinglePass(_, _)
\* x from position p on with every tag of a resolvable name replaced by its
\* value in one left-to-right pass, the values copied as they are
SinglePass(x, p) ==
    IF p > Len(x) THEN << >>
    ELSE IF \E k \in Resolvable : HasAt(x, p, Tag(k))
    THEN LET k == CHOOSE n \in Resolvable : HasAt(x, p, Tag(n)) IN
         Value(k) \o SinglePass(x, p + Len(Tag(k)))
    ELSE << x[p] >> \o SinglePass(x, p + 1)

BraceFree(t) == \A p \in 1..Len(t) : t[p] \notin { "{", "}" }

\* the task of step i has filled its prompt and stands before the provider
PromptFilled(i) == pc[i] = "gen" /\ Len(loc[i].history) = 1

\* C11: a prompt that is one tag is filled with the tag's value as it is,
\* tags inside the value included
C11_ValueVerbatim ==
    \A i \in Steps : \A k \in Resolvable :
        (PromptFilled(i) /\ conf[i].Prompt = Tag(k)) =>
            loc[i].filledPrompt = Value(k)

\* C12 as stated: with every dependency resolved, filling the filled
\* prompt again gives the filled prompt
C12_Idempotent ==
    \A i \in Steps :
        PromptFilled(i) => fillTags(loc[i].filledPrompt) = { loc[i].filledPrompt }

NoResolvableTag(t) == \A k \in Resolvable : ~Contains(t, Tag(k))

\* C12 amended: filling the filled prompt again gives the filled prompt
\* when the filled prompt holds no tag of a resolvable name
C12_IdempotentWhenResolved ==
    \A i \in Steps :
        (PromptFilled(i) /\ NoResolvableTag(loc[i].filledPrompt)) =>
            fillTags(loc[i].filledPrompt) = { loc[i].filledPrompt }

\* C12 witness: {{A}}{{input}} was filled with the two values, which hold
\* no tag
C12_FilledPlain ==
    \E i \in Steps :
        /\ PromptFilled(i)
        /\ conf[i].Prompt = Tag(idA) \o Tag(T("input"))
        /\ loc[i].filledPrompt = T("a") \o T("i")

\* C13: the filled prompt, which is the user turn handed to the provider,
\* is the prompt with every occurrence of a tag of a stored id, of
\* clipboard and of input replaced by its value and everything else kept
C13_FillsEveryTag ==
    \A i \in Steps :
        (IsTextStep(i) /\ PromptFilled(i)) =>
            /\ loc[i].filledPrompt = SinglePass(conf[i].Prompt, 1)
            /\ loc[i].history = << user(SinglePass(conf[i].Prompt, 1)) >>

\* x without the tags of names
RECURSIVE DropTags(_, _)
DropTags(x, names) ==
    IF names = {} THEN x
    ELSE LET n == CHOOSE k \in names : TRUE IN
         DropTags(ReplaceAll(x, Tag(n), << >>), names \ {n})

\* C13 where no value holds a brace and the prompt holds no brace outside
\* its tags
C13_PlainFill ==
    \A i \in Steps :
        ( /\ IsTextStep(i) /\ PromptFilled(i)
          /\ \A k \in Resolvable : BraceFree(Value(k))
          /\ BraceFree(DropTags(conf[i].Prompt, Resolvable \cup { T("zz") })) ) =>
            loc[i].filledPrompt = SinglePass(conf[i].Prompt, 1)

\* ------------------------------------------------------------ C14 .. C15
\* C14: a step changes the Result Store only by adding one identifier that
\* was not stored, and a stored value is never changed or removed
C14_WriteOnce ==
    [][ /\ \A k \in DOMAIN results :
             k \in DOMAIN results' /\ results'[k] = results[k]
        /\ Cardinality(DOMAIN results' \ DOMAIN results) <= 1 ]_vars

\* C14 witness: the three results of the diamond flow are stored, the two
\* readers of A's result having filled their prompts with the one value
C14_AllStored ==
    /\ conf = FlowDiamond
    /\ DOMAIN results = { idA, idB, idC }
    /\ loc[2].filledPrompt = T("use") \o T(" ") \o results[idA]
    /\ loc[3].filledPrompt = loc[2].filledPrompt

\* the task of step i is inside a store access between mu.Lock() and
\* mu.Unlock()
InStore(i) == i \in mu

\* C15: no two tasks are inside a store access at the same time, a task is
\* inside one only at a depsReady, fillTags or publication position, and
\* main's unlocked reads (finalResult, saveSessionLog) come when every task
\* has finished and none is inside the store
C15_StoreUnderLock ==
    /\ \A i, j \in Steps : (InStore(i) /\ InStore(j)) => i = j
    /\ \A i \in Steps : InStore(i) => pc[i] \in LockPcs
    /\ bg # "runFlow" => (mu = {} /\ \A i \in Steps : pc[i] = "done")
    /\ logOut.written =>
         \A i \in Steps :
            logOut.Steps[i].Output = ToValidUTF8(results[conf[i].ID])

\* C15 witness: B is inside fillTags holding the lock while C, which wants
\* to fill its file name, is not
C15_OneInside ==
    /\ conf = FlowLock
    /\ pc[2] = "wContent" /\ InStore(2)
    /\ pc[3] = "wName" /\ ~InStore(3)

\* ------------------------------------------------------------ C16 .. C20
StateMoves ==
    { << "Pending", "Running" >>, << "Running", "Waiting" >>,
      << "Waiting", "Running" >>, << "Running", "Done" >>,
      << "Running", "Failed" >> }

\* C16: the presentation state of a step changes only along Pending ->
\* Running, Running -> Waiting, Waiting -> Running, Running -> Done and
\* Running -> Failed
C16_StateMoves ==
    [][ \A i \in Steps :
            m'.Steps[i] # m.Steps[i] =>
                << m.Steps[i], m'.Steps[i] >> \in StateMoves ]_vars

\* C16 without the moves out of Waiting: Waiting is entered from Running
\* only, and Done and Failed are never left
C16_OtherMoves ==
    [][ \A i \in Steps :
            (m'.Steps[i] # m.Steps[i] /\ m.Steps[i] # "Waiting") =>
                << m.Steps[i], m'.Steps[i] >> \in StateMoves ]_vars

OpenEnded(i) == conf[i].Type = "interaction" /\ conf[i].MaxTurns # 1

\* the task of step i takes the end-of-interaction token from inputChan
TakesEndToken(i) ==
    /\ OpenEnded(i) /\ pc[i] = "iRecv" /\ pc'[i] # "iRecv"
    /\ CopiesIn(EndToken, inputChan') < CopiesIn(EndToken, inputChan)

\* the loop of step i ends and nothing else does: the transcript is the
\* result to publish and is stored, the other tasks and the process go on
EndsLoopOnly(i) ==
    /\ pc'[i] = "publish"
    /\ res'[i] = Serialize(loc[i].history)
    /\ histories'[conf[i].ID] = loc[i].history
    /\ \A j \in Steps \ {i} : pc'[j] = pc[j]
    /\ proc' = proc /\ alive' = alive

\* C17: the end-of-interaction token ends the loop of the step that takes
\* it and only that: the step goes on to publish its transcript, whatever
\* its prompt and however many turns came before
C17_EndTokenEndsLoop ==
    [][ \A i \in Steps : TakesEndToken(i) => EndsLoopOnly(i) ]_vars

\* C17 (amended): the same for a transcript that is not empty; an
\* open-ended chat fails only with an empty transcript, and one on its
\* way to Done has its transcript as result
C17_EndTokenEndsLoopUnlessEmpty ==
    /\ [][ \A i \in Steps :
              (TakesEndToken(i) /\ loc[i].history # << >>) => EndsLoopOnly(i) ]_vars
    /\ [](\A i \in Steps :
              OpenEnded(i) =>
                 /\ pc[i] \in { "sendFailed", "exit" } => loc[i].history = << >>
                 /\ pc[i] \in { "publish", "sendDone", "done" } =>
                        /\ loc[i].history # << >>
                        /\ res[i] = Serialize(loc[i].history))

\* a chat ended before its first turn is Done with its prompt as transcript
C17_EndedAtOnce ==
    \E i \in Steps :
        /\ OpenEnded(i) /\ m.Steps[i] = "Done" /\ Running
        /\ Len(loc[i].history) = 1
        /\ results[conf[i].ID] = Serialize(loc[i].history)

\* a chat ended after a turn is Done with the longer transcript
C17_EndedAfterTurn ==
    \E i \in Steps :
        /\ OpenEnded(i) /\ m.Steps[i] = "Done" /\ Running
        /\ Len(loc[i].history) > 1
        /\ results[conf[i].ID] = Serialize(loc[i].history)

OneTurn(i) == conf[i].Type = "interaction" /\ conf[i].MaxTurns = 1

\* the only path of a one-turn interaction: no position of callGeminiChat
\* is on it, and inputChan is read once
OneTurnMoves ==
    { << "wait", "sendStarted" >>, << "sendStarted", "iFill" >>,
      << "iFill", "iSendOut" >>, << "iFill", "iSendReq" >>,
      << "iSendOut", "iSendReq" >>, << "iSendReq", "iRecv" >>,
      << "iRecv", "publish" >>, << "publish", "sendDone" >>,
      << "sendDone", "done" >> }

C18_TokenPublished ==
    \E i \in Steps :
        /\ OneTurn(i) /\ pc[i] = "done"
        /\ conf[i].ID \in DOMAIN results
        /\ results[conf[i].ID] = EndToken

GenPcs ==
    { "gen", "genStreamStart", "genStream", "genSendCall", "genTool",
      "genSendResult", "genRecord", "genReturn" }

\* where a reader of the transcript stands after the turn t: "idle" after
\* a model text, "asked" after a human input or a tool response, "called"
\* after a tool call
AfterTurn(st, t) ==
    CASE st = "idle" /\ t.Role = "user" /\ t.Kind = "text" -> "asked"
      [] st = "asked" /\ t.Role = "model" /\ t.Kind = "text" -> "idle"
      [] st = "asked" /\ t.Role = "model" /\ t.Kind = "functionCall" -> "called"
      [] st = "called" /\ t.Role = "function" /\ t.Kind = "functionResponse"
            -> "asked"
      [] OTHER -> "bad"

RECURSIVE AfterTurns(_, _)
AfterTurns(st, h) ==
    IF h = << >> THEN st ELSE AfterTurns(AfterTurn(st, Head(h)), Tail(h))

\* the transcript without the prompt it was seeded with
Unseeded(i) ==
    IF loc[i].filledPrompt # << >> /\ loc[i].history # << >>
    THEN Tail(loc[i].history) ELSE loc[i].history

\* prompt first, then human input, tool turns and model text in turn, and
\* no end token among them
TranscriptShape(i) ==
    /\ loc[i].filledPrompt # << >> /\ pc[i] \notin { "wait", "sendStarted", "iFill" }
           => /\ loc[i].history # << >>
              /\ Head(loc[i].history) = model(loc[i].filledPrompt)
    /\ AfterTurns("idle", Unseeded(i)) =
           IF pc[i] \in GenPcs THEN "asked" ELSE "idle"
    /\ pc[i] \in GenPcs =>
           AfterTurns("asked", loc[i].newMessages) =
               IF pc[i] \in { "genSendResult", "genRecord" }
               THEN "called" ELSE "asked"
    /\ \A k \in DOMAIN Unseeded(i) :
           Unseeded(i)[k].Kind = "text" => Unseeded(i)[k].Text # EndToken

\* every input taken from inputChan but the end token becomes a user turn,
\* and every return of callGeminiChat adds its turns and its text
TranscriptGrows(i) ==
    /\ pc[i] = "iFill" /\ pc'[i] # pc[i] =>
           loc'[i].filledPrompt \in fillTags(conf[i].Prompt)
    /\ pc[i] = "iRecv" /\ pc'[i] = "gen" =>
           \E v \in BagToSet(inputChan) \ { EndToken } :
              /\ inputChan = inputChan' (+) SetToBag({ v })
              /\ loc'[i].history = Append(loc[i].history, user(v))
    /\ pc[i] = "iRecv" /\ pc'[i] \notin { "iRecv", "gen" } =>
           /\ inputChan = inputChan' (+) SetToBag({ EndToken })
           /\ loc'[i].history = loc[i].history
    /\ pc[i] = "genReturn" /\ pc'[i] # pc[i] =>
           loc'[i].history =
              loc[i].history \o loc[i].newMessages \o << model(loc[i].fullText) >>
    /\ pc[i] \notin { "iFill", "iRecv", "genReturn" } =>
           loc'[i].history = loc[i].history

\* the line a turn is rendered as, without its line break
LineOf(t) ==
    (IF t.Role = "model" THEN T("AI") ELSE T("User")) \o << ":", " " >> \o
    (CASE t.Kind = "text" -> t.Text
       [] t.Kind = "functionCall" -> T("[Tool Call]")
       [] OTHER -> T("[Tool Result]"))

\* text is one line per turn of h, each ended by a line break
OneLinePerTurn(text, h) ==
    LET lines == Split(text, << "\n" >>) IN
    /\ Len(lines) = Len(h) + 1
    /\ lines[Len(lines)] = << >>
    /\ \A k \in DOMAIN h : lines[k] = LineOf(h[k])

RECURSIVE Rendered(_, _)
\* text is the turns of h in order, each as its line and a line break
Rendered(text, h) ==
    IF h = << >> THEN text = << >>
    ELSE LET last == LineOf(h[Len(h)]) \o << "\n" >>
             n == Len(text) - Len(last)
         IN  /\ n >= 0
             /\ SubSeq(text, n + 1, Len(text)) = last
             /\ Rendered(SubSeq(text, 1, n), SubSeq(h, 1, Len(h) - 1))

NoLineBreak(h) == \A k \in DOMAIN h : h[k].Kind = "text" => NoNewline(h[k].Text, 1, Len(h[k].Text))

Ended(i) == OpenEnded(i) /\ pc[i] \in { "publish", "sendDone", "done" }

\* C19: the transcript of an open-ended interaction is the prompt (when
\* not empty) as a model turn, then per human input a user turn, the
\* turns of the tool-call loop and a model turn with the returned text,
\* never the end token; the result is one User:/AI: line per turn
C19_Transcript ==
    /\ [][ \A i \in Steps : OpenEnded(i) => TranscriptGrows(i) ]_vars
    /\ [](\A i \in Steps : OpenEnded(i) => TranscriptShape(i))
    /\ [](\A i \in Steps : Ended(i) => OneLinePerTurn(res[i], loc[i].history))

\* C19 (amended): the same, the result being one User:/AI: entry per turn
\* ended by a line break, which is one line per turn when no turn holds a
\* line break
C19_TranscriptEntries ==
    /\ [][ \A i \in Steps : OpenEnded(i) => TranscriptGrows(i) ]_vars
    /\ [](\A i \in Steps : OpenEnded(i) => TranscriptShape(i))
    /\ [](\A i \in Steps :
              Ended(i) =>
                 /\ Rendered(res[i], loc[i].history)
                 /\ NoLineBreak(loc[i].history) =>
                        OneLinePerTurn(res[i], loc[i].history))

\* a chat with a prompt, one human input answered through a tool call, and
\* the end token: five turns, published
C19_ChatWithTool ==
    \E i \in Steps :
        /\ Ended(i) /\ pc[i] = "done" /\ loc[i].filledPrompt # << >>
        /\ Len(loc[i].history) = 5
        /\ loc[i].history[3].Kind = "functionCall"
        /\ results[conf[i].ID] = res[i]

\* a chat in which the human sent two lines at once
C19_TwoLineInput ==
    \E i \in Steps :
        /\ Ended(i) /\ pc[i] = "done"
        /\ ~NoLineBreak(loc[i].history)

\* one pass of the tool-call loop, event by event
ToolCallOrder(i) ==
    LET n == Len(loc[i].contents)
        k == Len(loc[i].newMessages)
    IN
    /\ pc'[i] = "genSendCall" => pc[i] \in { "gen", "genStream", "genSendCall" }
    /\ pc'[i] = "genTool" => pc[i] \in { "genSendCall", "genTool" }
    /\ pc'[i] = "genSendResult" => pc[i] \in { "genTool", "genSendResult" }
    /\ pc'[i] = "genRecord" => pc[i] \in { "genSendResult", "genRecord" }
    /\ pc[i] = "genSendCall" /\ pc'[i] # pc[i] =>
           /\ pc'[i] = "genTool"
           /\ MsgOf(i) = [type |-> "StepToolCallMsg", ID |-> conf[i].ID,
                          Name |-> loc[i].fc]
           /\ alive => cur' = MsgOf(i)
           /\ [loc'[i] EXCEPT !.sent = loc[i].sent] = loc[i]
    /\ pc[i] = "genTool" /\ pc'[i] # pc[i] =>
           /\ pc'[i] = "genSendResult"
           /\ loc'[i].fc = loc[i].fc
           /\ loc'[i].contents = loc[i].contents
           /\ Len(loc'[i].newMessages) = k + 1
           /\ SubSeq(loc'[i].newMessages, 1, k) = loc[i].newMessages
           /\ loc'[i].newMessages[k + 1].Role = "model"
           /\ loc'[i].newMessages[k + 1].Kind = "functionCall"
           /\ loc'[i].newMessages[k + 1].Name = loc[i].fc
    /\ pc[i] = "genSendResult" /\ pc'[i] # pc[i] =>
           /\ pc'[i] = "genRecord"
           /\ MsgOf(i) = [type |-> "StepToolResultMsg", ID |-> conf[i].ID,
                          Name |-> loc[i].fc, Success |-> loc[i].toolOk]
           /\ alive => cur' = MsgOf(i)
           /\ [loc'[i] EXCEPT !.sent = loc[i].sent] = loc[i]
    /\ pc[i] = "genRecord" /\ pc'[i] # pc[i] =>
           /\ pc'[i] = "gen"
           /\ Len(loc'[i].newMessages) = k + 1
           /\ SubSeq(loc'[i].newMessages, 1, k) = loc[i].newMessages
           /\ loc'[i].newMessages[k + 1].Role = "function"
           /\ loc'[i].newMessages[k + 1].Kind = "functionResponse"
           /\ loc'[i].newMessages[k + 1].Name = loc[i].fc
           /\ loc'[i].newMessages[k + 1].Text = T("content") <=> loc[i].toolOk
           /\ Len(loc'[i].contents) = n + 2
           /\ SubSeq(loc'[i].contents, 1, n) = loc[i].contents
           /\ loc'[i].contents[n + 1].Role = "model"
           /\ loc'[i].contents[n + 1].Kind = "functionCall"
           /\ loc'[i].contents[n + 1].Name = loc[i].fc
           /\ loc'[i].contents[n + 2].Role = "user"
           /\ loc'[i].contents[n + 2].Kind = "functionResponse"
           /\ loc'[i].contents[n + 2].Name = loc[i].fc
           /\ loc'[i].contents[n + 2].Text = loc'[i].newMessages[k + 1].Text

\* the appended turns are call/response pairs, each pair with one name
InPairs(msgs) ==
    \A k \in DOMAIN msgs :
        IF k % 2 = 1
        THEN /\ msgs[k].Kind = "functionCall" /\ msgs[k].Role = "model"
        ELSE /\ msgs[k].Kind = "functionResponse" /\ msgs[k].Role = "function"
             /\ msgs[k].Name = msgs[k - 1].Name

RECURSIVE TurnsOfKind(_, _)
TurnsOfKind(h, kind) ==
    IF h = << >> THEN 0
    ELSE (IF Head(h).Kind = kind THEN 1 ELSE 0) + TurnsOfKind(Tail(h), kind)

\* the turns the task of step i holds: a chat's transcript with the turns
\* of the call in progress, a text step's appended turns
TurnsHeld(i) ==
    IF conf[i].Type = "interaction"
    THEN IF pc[i] \in GenPcs THEN loc[i].history \o loc[i].newMessages
         ELSE loc[i].history
    ELSE loc[i].newMessages

RECURSIVE Recorded(_, _)
Recorded(kind, n) ==
    IF n = 0 THEN 0 ELSE TurnsOfKind(TurnsHeld(n), kind) + Recorded(kind, n - 1)

At(pcs) == Cardinality({ i \in Steps : pc[i] \in pcs })

\* the tasks forwarding the text that came before a function call
Forwarding ==
    Cardinality({ i \in Steps : /\ pc[i] \in { "genStreamStart", "genStream" }
                                /\ loc[i].fc # << >> })

\* C20: on a response with a tool call the loop emits StepToolCallMsg,
\* calls the tool once, emits StepToolResultMsg with Success true exactly
\* when the tool returned no error, and calls the provider again with
\* contents extended by the call and the response under the same name;
\* after k tool calls the appended turns are those 2k turns in order
C20_ToolCallLoop ==
    /\ [][ \A i \in Steps : ToolCallOrder(i) ]_vars
    /\ [](\A i \in Steps :
              pc[i] \in GenPcs =>
                 /\ InPairs(IF pc[i] \in { "genSendResult", "genRecord" }
                            THEN loc[i].newMessages \o
                                 << responseTurn(loc[i].fc, loc[i].toolOk) >>
                            ELSE loc[i].newMessages)
                 /\ pc[i] \in { "gen", "genReturn" } =>
                        loc[i].contents =
                           Contents(loc[i].history \o loc[i].newMessages))
    /\ [](/\ Recorded("functionCall", Len(conf)) =
                 nCalls - At({ "genSendCall", "genTool" }) - Forwarding
           /\ Recorded("functionResponse", Len(conf)) =
                 nCalls - At({ "genSendCall", "genTool", "genSendResult",
                               "genRecord" }) - Forwarding)

\* two tool calls in one call of callGeminiChat: four appended turns
C20_TwoCalls ==
    \E i \in Steps :
        /\ pc[i] = "genReturn" /\ Len(loc[i].newMessages) = 4
        /\ Len(loc[i].contents) = Len(loc[i].history) + 4

\* a failed tool call reported as such and recorded
C20_FailedCall ==
    \E i \in Steps :
        /\ pc[i] = "gen" /\ ~loc[i].toolOk /\ Len(loc[i].newMessages) = 2
        /\ loc[i].newMessages[2].Text = T("error")

\* ------------------------------------------------------------ C21 .. C30
InLoop(i) == pc[i] \in GenPcs \ { "genReturn" }

\* C21: with a provider that requests a tool on every call the loop of
\* callGeminiChat never returns, however many calls were made: the task
\* stays inside the loop and its step is never shown Waiting, Done or
\* Failed
C21_LoopNeverReturns ==
    /\ [][ \A i \in Steps : InLoop(i) => InLoop(i)' ]_vars
    /\ [](\A i \in Steps :
              InLoop(i) => /\ m.Steps[i] \in { "Pending", "Running" }
                           /\ conf[i].ID \notin DOMAIN results)
    /\ [][ \A i \in Steps :
              InLoop(i) /\ m.Steps[i] = "Running" => m'.Steps[i] = "Running" ]_vars

\* the loop has gone round as often as the provider asked, is about to
\* call the provider again, and the step is shown Running
C21_StillLooping ==
    \E i \in Steps :
        /\ pc[i] = "gen" /\ m.Steps[i] = "Running"
        /\ nCalls = MaxChatCalls
        /\ Len(loc[i].newMessages) = 2 * MaxChatCalls

\* the loop returns only from a stream without a function call: one that
\* failed, one that was empty, or one that carried text
C21_ReturnsWithoutCall ==
    [][ \A i \in Steps :
            pc'[i] = "genReturn" /\ pc[i] # "genReturn" =>
                \/ pc[i] = "gen" /\ loc'[i].fullText = << >>
                \/ pc[i] = "genStream" /\ loc[i].fullText # << >> ]_vars

RECURSIVE Closure(_, _, _)
\* the steps reached from i in 1 .. n steps of the relation Uses
Closure(Uses(_, _), i, n) ==
    IF n = 0 THEN {}
    ELSE LET near == { j \in Steps : Uses(i, j) } IN
         near \cup UNION { Closure(Uses, j, n - 1) : j \in near }

\* i is on a cycle of Uses, or reaches a step that is
Hangs(Uses(_, _), i) ==
    \E j \in Closure(Uses, i, Len(conf)) \cup {i} :
        j \in Closure(Uses, j, Len(conf))

\* the tag of step j occurs in a templatable field of step i
UsesTag(i, j) == conf[j].ID \in TagsIn(conf[i])

\* step j is in the wait set depsReady computes for step i
WaitsFor(i, j) == conf[j].ID \in blockingDeps(conf[i])

NeverStarts(i) ==
    /\ pc[i] = "wait" /\ m.Steps[i] = "Pending"
    /\ conf[i].ID \notin DOMAIN results
    /\ bg = "runFlow"

\* C22: a step on a cycle of tag dependencies, a self-reference included,
\* and a step that depends on one, never leaves the dependency wait, and
\* runFlow does not return
C22_CycleHangs ==
    [](\A i \in Steps : Hangs(UsesTag, i) => NeverStarts(i))

\* the same for the cycles of the wait sets depsReady computes
C22_SeenCycleHangs ==
    [](\A i \in Steps : Hangs(WaitsFor, i) => NeverStarts(i))

\* every task that can run has run, and the steps of the cycle still wait
C22_RestDone ==
    /\ \E i \in Steps : Hangs(WaitsFor, i)
    /\ \A i \in Steps : IF Hangs(WaitsFor, i) THEN pc[i] = "wait" ELSE pc[i] = "done"

\* the program was ended from the keyboard
KeyQuit == ~alive /\ m.Err = << >> /\ m.Result = << >>

\* C23: in every mode a Ctrl+C makes the TUI quit, and after it no step
\* publishes a result
C23_CtrlCEndsFlow ==
    /\ [](KeyReady => CtrlCQuits)
    /\ [][ KeyQuit => results' = results ]_vars

\* once the TUI has quit main can return, which ends every task: the
\* process exits with status 0 and nothing happens after
C23_QuitEndsProcess ==
    /\ [](Running /\ ~alive => ENABLED MainReturns)
    /\ [][ proc.state = "exited" => UNCHANGED vars ]_vars

\* between the quit and the exit of the process a task published
C23_PublishedAfterQuit ==
    /\ KeyQuit /\ Running
    /\ \E i \in Steps : pc[i] = "sendDone" /\ m.Steps[i] # "Done"

\* text with its clipboard tags replaced by the text main read at start
FillAtStart(text) ==
    IF Contains(text, Tag(T("clipboard")))
    THEN ReplaceAll(text, Tag(T("clipboard")), m.ClipboardContent)
    ELSE text

\* C24: every {{clipboard}} substitution of a run yields the clipboard
\* text of the start of the run, whatever the system clipboard holds
\* when the substitution is made
C24_ClipboardReadOnce ==
    [][ \A i \in Steps :
          /\ pc[i] \in { "tFill", "iFill", "eFill" } /\ pc'[i] # pc[i] =>
                 loc'[i].filledPrompt \in fillTags(FillAtStart(conf[i].Prompt))
          /\ pc[i] = "wName" /\ pc'[i] # pc[i] =>
                 loc'[i].fname \in fillTags(FillAtStart(conf[i].Filename))
          /\ pc[i] = "sFill" /\ pc'[i] # pc[i] =>
                 \E sp \in fillTags(FillAtStart(conf[i].Source)) :
                     loc'[i].sourcePath = HomePath(sp) ]_vars

\* while the clipboard is not changed from outside every substitution
\* yields the text of the start
C24_SameWhileUnchanged ==
    [][ \A i \in Steps :
          (sysClip = m.ClipboardContent) =>
             /\ pc[i] \in { "tFill", "iFill", "eFill" } /\ pc'[i] # pc[i] =>
                    loc'[i].filledPrompt \in fillTags(FillAtStart(conf[i].Prompt))
             /\ pc[i] = "wName" /\ pc'[i] # pc[i] =>
                    loc'[i].fname \in fillTags(FillAtStart(conf[i].Filename)) ]_vars

\* two substitutions of one run that differ
C24_TwoTexts ==
    /\ conf = FlowClip /\ pc[2] = "wContent"
    /\ loc[1].filledPrompt = T("clip") /\ loc[2].fname = T("copied")

\* C25: when the flow completes the clipboard receives, once and after
\* every step has published, the result of the step that is last in
\* conf.Steps, and FlowFinishedMsg reports the same text
C25_LastStepToClipboard ==
    /\ [][ bg = "copy" /\ bg' # "copy" =>
              /\ bg' = "save"
              /\ \A i \in Steps : conf[i].ID \in DOMAIN results
              /\ sysClip' = results[conf[Len(conf)].ID] ]_vars
    /\ [][ bg' = "copy" => bg \in { "runFlow", "copy" } ]_vars
    /\ [][ sysClip' # sysClip =>
              \/ bg = "copy" /\ bg' = "save"
              \/ sysClip' = T("copied") /\ UNCHANGED << taskVars, bg >> ]_vars
    /\ [](cur.type = "FlowFinishedMsg" =>
              cur.Result = results[conf[Len(conf)].ID])

\* the last step of conf.Steps finished before the first, their results
\* differ, and the clipboard holds the last step's
C25_LastFinishedFirst ==
    /\ conf = FlowOddGuard /\ bg = "save"
    /\ m.Steps[2] = "Done" /\ m.Steps[1] # "Done"
    /\ results[idA] # results[idB]
    /\ sysClip = results[idB]

\* what re-reading the log's steps[i].output fields gives: a store from
\* step id to output
LoggedStore == [id \in { conf[i].ID : i \in Steps } |->
                  logOut.Steps[CHOOSE i \in Steps : conf[i].ID = id].Output]

\* C26: the log persisted for a completed run records the flow name, and
\* its step ids mapped to their output fields are exactly the result store
C26_LogRoundTrip ==
    logOut.written => /\ logOut.FlowName = flowName
                      /\ LoggedStore = results

\* C26 without the exactness of the texts: the log names the flow, its
\* steps are the stored identifiers, and each output is the stored text
\* as JSON carries it
C26_LogRoundTripAsJSON ==
    logOut.written =>
       /\ logOut.FlowName = flowName
       /\ DOMAIN LoggedStore = DOMAIN results
       /\ \A id \in DOMAIN results : LoggedStore[id] = ToValidUTF8(results[id])

\* the log of FlowPick after a file holding a Latin-1 byte was selected
C26_LatinFileLogged ==
    /\ conf = FlowPick /\ logOut.written
    /\ results[idA] = << BadByte >>
    /\ LoggedStore[idA] = << ReplacementRune >>

Selectors == { i \in Steps : conf[i].Type = "selector" }

\* os.ReadDir or os.ReadFile returned an error during step i
IOError(i) == i \in faults.io

\* a published selector result is what os.ReadFile returned
SelectorResult ==
    \A i \in Selectors :
       conf[i].ID \in DOMAIN results =>
          /\ results[conf[i].ID] = res[i]
          /\ res[i] \in FileTexts
          /\ ~IOError(i)

\* C27: a selector's result is the selected file's contents, and the step
\* is a step failure exactly when the listing or the read returned an I/O
\* error
C27_SelectorFailsOnIOError ==
    /\ SelectorResult
    /\ \A i \in Selectors : Failed(i) <=> IOError(i)

\* C27 with the empty file: a selector's result is the selected file's
\* contents; an I/O error is a step failure, and a step failure comes from
\* an I/O error or from a selected file that was read as empty
C27_SelectorFailsOnIOErrorOrEmpty ==
    /\ SelectorResult
    /\ \A i \in Selectors :
          /\ IOError(i) => Failed(i)
          /\ Failed(i) => \/ IOError(i)
                          \/ loc[i].selectedFile \in FileNames /\ res[i] = << >>

\* the selected file was read without error and is empty: the step failed
C27_EmptyFileFails ==
    \E i \in Selectors :
       /\ Failed(i) /\ ~IOError(i)
       /\ loc[i].selectedFile \in FileNames

\* the read of the selected file returned an error: the step failed
C27_ReadErrorFails ==
    \E i \in Selectors :
       /\ Failed(i) /\ IOError(i)
       /\ loc[i].selectedFile \in FileNames

\* the file_write steps whose guard was true and whose write has returned
Wrote == { i \in Steps : /\ conf[i].Type = "file_write"
                         /\ pc[i] \in { "publish", "sendDone", "done",
                                        "sendFailed", "exit" }
                         /\ res[i] # SkipSentinel }

\* the confirmation names the resolved path
WriteConfirmed(i) ==
    res[i] = T("File saved to") \o T(" ") \o HomePath(loc[i].fname)

\* C28: a file_write whose guard is true yields the confirmation naming
\* the resolved path when the write succeeds, and is a step failure when
\* the write fails
C28_WriteFailureFails ==
    \A i \in Wrote : IF IOError(i) THEN Failed(i) ELSE WriteConfirmed(i)

\* the half of C28 about the write that succeeds, and what the code does
\* with the one that fails: a non-empty error text, never a step failure
C28_WriteFailureIsResult ==
    \A i \in Wrote :
       /\ ~Failed(i)
       /\ IF IOError(i)
          THEN res[i] = T("Error writing file:") \o T(" ") \o T("err")
          ELSE WriteConfirmed(i)

\* the write of FlowClip's B, which has no guard, failed and B was
\* published and shown Done
C28_FailedWriteDone ==
    /\ conf = FlowClip /\ 2 \in Wrote /\ IOError(2)
    /\ idB \in DOMAIN results /\ m.Steps[2] = "Done"

\* the step ids that occur as a {{tag}} in argument k of step i
ArgTags(i, k) == { d \in validIDs : Contains(conf[i].Args[k], Tag(d)) }

\* the task of tool step i calls the provider in this step
Invokes(i) == conf[i].Type = "mcp" /\ pc[i] = "mArgs" /\ pc'[i] # "mArgs"

\* argument k as passed holds d's result and no tag of a step
Resolved(i, k, d) ==
    /\ d \in DOMAIN results
    /\ Contains(loc[i].args[k], results[d])
    /\ \A e \in validIDs : ~Contains(loc[i].args[k], Tag(e))

\* C29: a tool step invokes the provider only after every step named by a
\* tag in one of its arguments has published, and the argument passed
\* holds that result in place of the tag
C29_ArgsResolved ==
    [][ \A i \in Steps :
          Invokes(i) =>
             \A k \in 1..Len(conf[i].Args) :
                \A d \in ArgTags(i, k) : Resolved(i, k, d) ]_vars

\* C29 for the steps that the dependency wait sees: the same, for a tag
\* that also occurs in the guard of the tool step
C29_GuardTagsResolved ==
    [][ \A i \in Steps :
          Invokes(i) =>
             \A k \in 1..Len(conf[i].Args) :
                \A d \in ArgTags(i, k) :
                   Contains(conf[i].If, Tag(d)) => Resolved(i, k, d) ]_vars

\* FlowArgs: the tool was called while A had not published, with the
\* tag itself in the argument
C29_CalledBeforeA ==
    /\ conf = FlowArgs /\ pc[2] \in { "publish", "sendDone", "done" }
    /\ idA \notin DOMAIN results
    /\ loc[2].args = << T("q") \o Tag(idA) >>

\* FlowTool: the tool was called with A's result as its argument
C29_CalledWithResult ==
    /\ conf = FlowTool /\ pc[2] \in { "publish", "sendDone", "done" }
    /\ res[2] # SkipSentinel
    /\ loc[2].args = << results[idA] >>

\* the text steps whose executor ran and whose result is published
TextDone ==
    { i \in Steps : /\ conf[i].Type \notin { "interaction", "selector",
                                             "file_write", "mcp", "flow_editor" }
                    /\ conf[i].ID \in DOMAIN results
                    /\ res[i] # SkipSentinel }

\* C30: the result of a text step is the concatenation, in order, of the
\* text increments forwarded for the step, tool calls or not
C30_ResultIsStreamed ==
    \A i \in TextDone : results[conf[i].ID] = loc[i].streamed

\* what holds of C30: the result is the text of the last stream, which is
\* the end of what was forwarded, and all of it when the provider
\* requested no tool or sent no text before its requests
C30_ResultEndsStreamed ==
    \A i \in TextDone :
       LET r == results[conf[i].ID]
           n == Len(loc[i].streamed)
       IN /\ r = loc[i].fullText
          /\ n >= Len(r)
          /\ SubSeq(loc[i].streamed, n - Len(r) + 1, n) = r
          /\ loc[i].newMessages = << >> => loc[i].streamed = r

\* a text step published "y" after "y" had been forwarded before a tool
\* call and "y" again after it
C30_TextBeforeCall ==
    \E i \in TextDone :
       /\ loc[i].newMessages # << >>
       /\ results[conf[i].ID] = << "y" >>
       /\ loc[i].streamed = << "y", "y" >>

\* ------------------------------------------------------------ C31 .. C39
\* the TUI is in a mode in which a human input can be supplied
SomeInputMode == m.InputMode \/ m.ListMode \/ m.EditorMode

\* C31: whenever a step is shown Waiting the TUI is in an input mode
C31_WaitingHasMode ==
    (\E i \in Steps : m.Steps[i] = "Waiting") => SomeInputMode

\* a step is shown Waiting, no input mode is set, its task still waits for
\* the input and no input is on its way
C31_WaitingStranded ==
    \E i \in Steps :
       /\ m.Steps[i] = "Waiting" /\ ~SomeInputMode
       /\ pc[i] \in { "iRecv", "sRecv", "eRecv" }
       /\ inputChan = EmptyBag
       /\ \E j \in Steps : j # i /\ m.Steps[j] = "Done"

RecvPcs == { "iRecv", "sRecv", "eRecv" }

\* TaskReady is the enabling condition of the goroutine's next step
TaskReadyIsEnabled ==
    \A i \in Steps : TaskReady(i) <=> ENABLED TaskNext(i)

\* the task of step i takes a value from inputChan in this step
Receives(i) == pc[i] \in RecvPcs /\ pc'[i] # pc[i]

\* the input request of step i has been sent and Update has not handled it
RequestUnseen(i) ==
    /\ cur.type \in { "StepInteractionRequiredMsg", "StepSelectorRequiredMsg",
                      "StepFlowEditorRequiredMsg" }
    /\ cur.ID = conf[i].ID

\* C32: a value a task receives from inputChan was sent in response to
\* the task's most recent input request, so that request had been handled
\* by the presentation layer before the value was sent, and no value is
\* received while the request is still on its way
C32_InputAnswersRequest ==
    [][ \A i \in Steps : Receives(i) => ~RequestUnseen(i) ]_vars

\* the chat took its first input, and a second one, sent before the chat
\* asked again, is waiting on the channel while the task sends its second
\* request
C32_LeftOver ==
    /\ conf = FlowChatBare /\ pc[1] = "iSendReq"
    /\ Len(loc[1].history) = 2
    /\ inputChan # EmptyBag

\* no executor has returned an empty result
NoFailure == \A i \in Steps : ~Failed(i)

\* no task is blocked on inputChan
NoOneAsks == \A i \in Steps : pc[i] \notin RecvPcs

\* every step has published and is shown Done, and runFlow has returned
AllDone ==
    /\ \A i \in Steps : conf[i].ID \in DOMAIN results /\ m.Steps[i] = "Done"
    /\ bg # "runFlow"

Skipped(i) == i \in Steps /\ GuardResolved(i) /\ ~loc[i].shouldRun

\* the steps that carry the tag of step i in a field the wait looks at
Dependents(i) ==
    { j \in Steps : Contains(combined(conf[j]), Tag(conf[i].ID)) }

\* step i has published the sentinel and is shown Done
SkippedDone(i) ==
    /\ conf[i].ID \in DOMAIN results /\ results[conf[i].ID] = SkipSentinel
    /\ m.Steps[i] = "Done"

\* no step that carries the tag of step i is still in the dependency wait
\* for i
Unblocked(i) ==
    \A j \in Dependents(i) :
       pc[j] = "wait" => \E d \in Steps : d # i /\ j \in Dependents(d)

C35_StoredNonEmpty ==
    /\ \A k \in DOMAIN results : results[k] # << >>
    /\ \A k \in validIDs : Lookup(k) = << >> <=> k \notin DOMAIN results
    /\ \A i \in Steps : Failed(i) => conf[i].ID \notin DOMAIN results

\* one step is stored and a later one, whose executor returned an empty
\* result, is not
C35_EmptyNotStored ==
    \E i, j \in Steps :
       /\ Failed(i) /\ res[i] = << >> /\ GuardResolved(i)
       /\ conf[i].ID \notin DOMAIN results
       /\ conf[j].ID \in DOMAIN results

\* the messages the task of step i has passed to p.Send so far
Sent(i) == loc[i].sent

Terminal == { "StepDoneMsg", "StepFailedMsg" }

EventsOrdered(i) ==
    LET ev == Sent(i) IN
    /\ pc[i] \in { "wait", "sendStarted" } <=> ev = << >>
    /\ \A k \in DOMAIN ev : ev[k] = "StepStartedMsg" <=> k = 1
    /\ \A k \in DOMAIN ev : ev[k] \in Terminal => k = Len(ev)
    /\ pc[i] = "sendDone" \/ (ev # << >> /\ ev[Len(ev)] = "StepDoneMsg") =>
          /\ conf[i].ID \in DOMAIN results
          /\ res[i] # << >>
          /\ \A j \in Steps : conf[j].ID = conf[i].ID => j = i
          /\ results[conf[i].ID] = res[i]
    /\ pc[i] = "done" <=> ev # << >> /\ ev[Len(ev)] = "StepDoneMsg"
    /\ pc[i] = "exit" <=> ev # << >> /\ ev[Len(ev)] = "StepFailedMsg"

\* C36: the events of a step are ordered: StepStartedMsg is sent once and
\* before every other event of the step, the result is in the store before
\* StepDoneMsg is sent, a step that has ended has sent one of StepDoneMsg
\* and StepFailedMsg, and nothing after it; the events already sent never
\* change
C36_EventsOrdered ==
    /\ [](\A i \in Steps : EventsOrdered(i))
    /\ [][\A i \in Steps :
            \/ Sent(i)' = Sent(i)
            \/ \E t \in { MsgOf(i).type } : Sent(i)' = Append(Sent(i), t)]_vars

\* a tool step has sent its start, a tool call, the tool's result and
\* StepDoneMsg, and another step ended with StepFailedMsg
C36_FullTrace ==
    /\ \E i \in Steps :
          /\ Len(Sent(i)) >= 4
          /\ Sent(i)[2] = "StepToolCallMsg"
          /\ Sent(i)[Len(Sent(i))] = "StepDoneMsg"
    /\ \E j \in Steps : Sent(j) # << >> /\ Sent(j)[Len(Sent(j))] = "StepFailedMsg"

\* C37: fillTags is deterministic: with the text, the store, the clipboard
\* and the command-line input fixed, every order in which the range over
\* the store visits its entries gives the same filled text
C37_FillDeterministic ==
    \A i \in Steps :
       pc[i] = "tFill" => Cardinality(fillTags(conf[i].Prompt)) = 1

\* the filled text depends on the order only where a stored value holds a
\* brace: with plain values every order gives the same text
C37_PlainValuesAgree ==
    \A i \in Steps :
       pc[i] = "tFill" /\ (\A k \in DOMAIN results :
                              ~Contains(results[k], Open)
                              /\ ~Contains(results[k], Close))
         => Cardinality(fillTags(conf[i].Prompt)) = 1

\* the literal v of the guard {{A}} op 'v' of step B
GuardLiteral == SubSeq(conf[2].If, Len(conf[2].If) - 1, Len(conf[2].If) - 1)

GuardOp == SubSeq(conf[2].If, Len(Tag(idA)) + 2, Len(Tag(idA)) + 3)

\* what the guard of B asks for: the published result of A, whitespace
\* removed at its ends, equals v (for ==) or differs from v (for !=)
GuardAsksRun ==
    IF GuardOp = EQ THEN Core(results[idA], Space) = GuardLiteral
    ELSE Core(results[idA], Space) # GuardLiteral

\* C38: for the guard {{A}} == 'v' (or {{A}} != 'v') the step runs exactly
\* when the whitespace-trimmed published result of A equals v (differs
\* from v), whatever the result text
C38_GuardOnResult ==
    GuardResolved(2) => (loc[2].shouldRun <=> GuardAsksRun)

\* the same for the results that hold neither == nor !=
C38_GuardOnPlainResult ==
    GuardResolved(2) /\ Occ(results[idA], EQ) = {} /\ Occ(results[idA], NE) = {}
       => (loc[2].shouldRun <=> GuardAsksRun)

\* a step taken while a prompt is edited that is no step of a task, of the
\* event loop's message handling or of main: a key event
EditingKey ==
    /\ m.EditorMode /\ m.FlowEditor.Editing
    /\ UNCHANGED << pc, cur, bg, proc, sysClip >>

\* the edited configuration differs at most in the prompt of step idx
OnlyPromptOf(idx, old, new) ==
    /\ DOMAIN new = DOMAIN old
    /\ \A k \in DOMAIN old : k # idx => new[k] = old[k]
    /\ idx \in DOMAIN old => new[idx].ID = old[idx].ID

\* C39: while a step's prompt is edited no key sends a value on inputChan,
\* ends the program or leaves editor mode, and no key changes anything of
\* the model but the editor; Esc changes nothing of the edited
\* configuration, and Ctrl+S changes only the prompt of the step at the
\* selected index
C39_EditingFrame ==
    [][EditingKey =>
          /\ inputChan' = inputChan /\ nKeys' = nKeys
          /\ alive' = alive
          /\ m'.EditorMode
          /\ [m' EXCEPT !.FlowEditor = m.FlowEditor] = m
          /\ m'.FlowEditor.SelectedIdx = m.FlowEditor.SelectedIdx
          /\ OnlyPromptOf(m.FlowEditor.SelectedIdx, m.FlowEditor.Config,
                          m'.FlowEditor.Config)
          /\ (EditingEsc => m'.FlowEditor.Config = m.FlowEditor.Config)
          /\ (m'.FlowEditor.Config # m.FlowEditor.Config => EditingCtrlS)]_vars

\* the prompt of the second step of the draft was edited and saved, the
\* first step is as it was, and the editor is still shown
C39_SecondPromptEdited ==
    /\ m.EditorMode /\ ~m.FlowEditor.Editing
    /\ m.FlowEditor.SelectedIdx = 2
    /\ m.FlowEditor.Config =
          << [ID |-> T("s"), Prompt |-> T("p")],
             [ID |-> T("t"), Prompt |-> << "y" >>] >>
    /\ inputChan = EmptyBag

====
